---- MODULE Spec2Model ----
(***************************************************************************)
(* Verification model of the tool-orchestration protocol:                  *)
(*   - MCPClient (app/mcp_client.py): one upstream link, the pending       *)
(*     table, the receiver task and the _rpc callers;                      *)
(*   - ws_handler (app/generic_mcp_server_di.py): the per-connection       *)
(*     frame loop of the server and its dispatch to execute_tool.          *)
(*   - serve (app/generic_mcp_server_di.py): the event loop shared by the  *)
(*     sessions, and execute_script, the subprocess strategy;              *)
(*   - PlanExecutor (app/mcp_client.py): the merge functions and the       *)
(*     step loop of execute.                                               *)
(* Each component has its own specification (SpecClient, SpecServer,       *)
(* SpecLoop, SpecScript, SpecMerge, SpecPlan); the variables of the other  *)
(* components stay at their initial values.                                *)
(***************************************************************************)
EXTENDS Integers, Sequences, FiniteSets, TLC

\* ------------------------------------------------------------------ bounds
\* number of _rpc invocations on one MCPClient
MaxCalls == 2
\* number of connect() invocations on one MCPClient
MaxConnects == 1

CallIds == 1..MaxCalls
LinkIds == 1..MaxConnects

\* result values and error objects an upstream reply can carry
Values == {"r1", "r2"}
Errors == {"e1"}

\* ------------------------------------------------------------ client state
VARIABLES
    conn,       \* MCPClient._conn: 0 is None, k is the link opened by connect() k
    linkOpen,   \* whether link k is open
    rstate,     \* receiver task created by connect() k: "none", "created", "running", "exited"
    rlink,      \* the link receiver k iterates over (self._conn when it first ran)
    rerr,       \* the exception that ended receiver k ("none" while it has none)
    pending,    \* MCPClient._pending: the ids that have an entry
    fut,        \* the future created by _rpc call i
    cpc,        \* position of _rpc call i
    cout,       \* what _rpc call i returned or raised
    src,        \* the frame the receiver was handling when it completed future i
    removed     \* how many times the entry of id i was popped from _pending

clientVars == <<conn, linkOpen, rstate, rlink, rerr, pending, fut, cpc,
                cout, src, removed>>

NoFut == [st |-> "none", val |-> "none"]
NoOut == [kind |-> "none", val |-> "none"]

\* A frame read from the link. kind: "garbage" (json.loads raises),
\* "nonobject" (valid JSON that is no object), "object". idk tells what the
\* "id" member is: "call" (the id of a request that was sent, in id), "null"
\* (null or absent), "unknown" (a string no entry has), "unhashable" (a JSON
\* array or object). key is the member that carries the payload: "result",
\* "error" or "none" (neither member present).
Frame(kind, idk, id, key, val) ==
    [kind |-> kind, idk |-> idk, id |-> id, key |-> key, val |-> val]

NoFrame == Frame("none", "null", 0, "none", "None")

Payloads ==
    {<<"result", v>> : v \in Values} \cup {<<"error", e>> : e \in Errors}
        \cup {<<"none", "None">>}

\* call i has put its request on the link
Sent(i) == cpc[i] = "waiting" \/ (cpc[i] = "done" /\ cout[i].kind # "sendfail")

\* the frames the peer can send: replies carrying the id of a request it was
\* sent, and frames that answer no request
Frames ==
    {Frame("garbage", "null", 0, "none", "None"),
     Frame("nonobject", "null", 0, "none", "None")}
    \cup {Frame("object", "call", i, p[1], p[2]) :
            i \in {j \in CallIds : Sent(j)}, p \in Payloads}
    \cup {Frame("object", k, 0, p[1], p[2]) :
            k \in {"null", "unknown", "unhashable"}, p \in {<<"result", "r1">>}}

ClientInit ==
    /\ conn = 0
    /\ linkOpen = [k \in LinkIds |-> FALSE]
    /\ rstate = [k \in LinkIds |-> "none"]
    /\ rlink = [k \in LinkIds |-> 0]
    /\ rerr = [k \in LinkIds |-> "none"]
    /\ pending = {}
    /\ fut = [i \in CallIds |-> NoFut]
    /\ cpc = [i \in CallIds |-> "idle"]
    /\ cout = [i \in CallIds |-> NoOut]
    /\ src = [i \in CallIds |-> NoFrame]
    /\ removed = [i \in CallIds |-> 0]

\* ------------------------------------------------- ws_handler state
VARIABLES
    spc,        \* position of ws_handler: "read", "exec" (awaiting execute_tool), "closed"
    recv,       \* the frames read so far, in order
    sent,       \* the replies sent so far, in order; "for" is the index in recv
                \* of the frame the handler was handling when it sent the reply
    execd,      \* the execute_tool calls that have ended: <<index in recv, outcome>>
    effects,    \* the side effects of execution strategies so far: <<index in
                \* recv, "db_session" | "callable" | "http" | "subprocess">>
    endedBy     \* why the frame loop ended: "none", "disconnect" (the iteration
                \* over the socket ended), "send_failed" (the socket closed under
                \* a reply), or the exception that reached the outer handler

serverVars == <<spc, recv, sent, execd, effects, endedBy>>

\* ------------------------------------------------- event loop of serve
VARIABLES
    lpc,        \* per session, the position of its ws_handler coroutine:
                \* "read", "thread" (awaiting asyncio.to_thread), "http"
                \* (awaiting the httpx request), "subprocess" (inside
                \* subprocess.run)
    inbox,      \* per session, the frames that have arrived and are not read yet
    answered,   \* per session, the number of frames answered
    holder      \* the session whose coroutine occupies the event-loop thread
                \* in a blocking call, or NoSession

loopVars == <<lpc, inbox, answered, holder>>

\* ------------------------------------------------- execute_script state
VARIABLES
    returncode, \* proc.returncode
    stdout,     \* proc.stdout, a sequence of characters
    stderr,     \* proc.stderr, a sequence of characters
    sresult     \* what execute_script returned or raised; NotRun before

scriptVars == <<returncode, stdout, stderr, sresult>>

\* ------------------------------------------------- merge function calls
VARIABLES
    msets,      \* the argument being built: a list of lists of records
    merged      \* the call made on it and its return value; NotCalled before

mergeVars == <<msets, merged>>

\* ------------------------------------------------- PlanExecutor.execute state
VARIABLES
    steps,          \* the steps of the plan executed so far
    phase,          \* "run", "done" (execute returned), "error" (execute raised)
    tool_results,   \* the accumulated result lists
    context_last,   \* the most recent logical result
    pending_merges, \* the deferred merge operators
    before          \* tool_results, context_last and pending_merges as they
                    \* were when the latest step began

planVars == <<steps, phase, tool_results, context_last, pending_merges, before>>

\* ------------------------------------------------- MCPClient.call_tool calls
VARIABLES
    calls       \* the call_tool calls execute has made, in order: the step
                \* each was made for and its state, "sent" (awaited),
                \* "returned" or "failed"

executeVars == <<calls>>

\* ------------------------------------------------- ToolRegistry state
VARIABLES
    tools_section,  \* spec["tools"]: the groups in their order, each with its
                    \* name and, when it is a dict, its entries in their order
    tools           \* self.tools: the flat mapping, a dict; NotBuilt before

registryVars == <<tools_section, tools>>

\* ------------------------------------------------- normalize_method_spec calls
VARIABLES
    raw,        \* the argument
    safe_spec   \* the dict returned; NotNormalized before

normalizeVars == <<raw, safe_spec>>

\* ------------------------------------------------- CRUD WebSocket endpoint state
VARIABLES
    students,   \* the ids of the rows of the students table
    wsreplies,  \* the replies sent by websocket_handler, in order, each with
                \* the request it answers
    wsids,      \* for each reply: the id of the frame it answers (NoWsId for
                \* a frame that is no JSON) and the id it carries
    message,    \* the local `message` of websocket_handler
    wsstate     \* "open", or the exception that ended websocket_handler

crudVars == <<students, wsreplies, wsids, message, wsstate>>

vars == <<clientVars, serverVars, loopVars, scriptVars, mergeVars, planVars,
          executeVars, registryVars, normalizeVars, crudVars>>

\* what an action of one component leaves alone
clientRest == <<serverVars, loopVars, scriptVars, mergeVars, planVars,
                registryVars, normalizeVars, crudVars, executeVars>>
serverRest == <<clientVars, loopVars, scriptVars, mergeVars, planVars,
                registryVars, normalizeVars, crudVars, executeVars>>
loopRest == <<clientVars, serverVars, scriptVars, mergeVars, planVars,
              registryVars, normalizeVars, crudVars, executeVars>>
scriptRest == <<clientVars, serverVars, loopVars, mergeVars, planVars,
                registryVars, normalizeVars, crudVars, executeVars>>
mergeRest == <<clientVars, serverVars, loopVars, scriptVars, planVars,
               registryVars, normalizeVars, crudVars, executeVars>>
registryRest == <<clientVars, serverVars, loopVars, scriptVars, mergeVars,
                  planVars, normalizeVars, crudVars, executeVars>>
normalizeRest == <<clientVars, serverVars, loopVars, scriptVars, mergeVars,
                   planVars, registryVars, crudVars, executeVars>>
crudRest == <<clientVars, serverVars, loopVars, scriptVars, mergeVars,
              planVars, registryVars, normalizeVars, executeVars>>
executeRest == <<clientVars, serverVars, loopVars, scriptVars, mergeVars,
                 registryVars, normalizeVars, crudVars>>
planRest == <<clientVars, serverVars, loopVars, scriptVars, mergeVars,
              registryVars, normalizeVars, crudVars, executeVars>>

\* ------------------------------------------------------- MCPClient.connect
\* connect() number k, at the point where websockets.connect has returned:
\* _conn is overwritten with the new link and a receiver task is created.
\* (Nothing is assigned before the await, and a connect that raises assigns
\* nothing at all.)
connect(k) ==
    /\ rstate[k] = "none"
    /\ conn' = k
    /\ linkOpen' = [linkOpen EXCEPT ![k] = TRUE]
    /\ rstate' = [rstate EXCEPT ![k] = "created"]
    /\ UNCHANGED clientRest
    /\ UNCHANGED <<rlink, rerr, pending, fut, cpc, cout, src, removed>>

\* --------------------------------------------------------- MCPClient.close
close ==
    /\ conn # 0
    /\ linkOpen[conn]
    /\ linkOpen' = [linkOpen EXCEPT ![conn] = FALSE]
    /\ UNCHANGED clientRest
    /\ UNCHANGED <<conn, rstate, rlink, rerr, pending, fut, cpc, cout,
                   src, removed>>

\* the peer or the network closes link l
LinkDrop(l) ==
    /\ linkOpen[l]
    /\ linkOpen' = [linkOpen EXCEPT ![l] = FALSE]
    /\ UNCHANGED clientRest
    /\ UNCHANGED <<conn, rstate, rlink, rerr, pending, fut, cpc, cout,
                   src, removed>>

\* ----------------------------------------------------- MCPClient._receiver
\* The task starts to run: "async for raw in self._conn" takes the link that
\* _conn names now. A closed link ends the iteration at once; a link another
\* receiver is already reading makes recv raise, which "except: pass" swallows.
ReceiverStart(k) ==
    /\ rstate[k] = "created"
    /\ rlink' = [rlink EXCEPT ![k] = conn]
    /\ IF ~linkOpen[conn]
         THEN /\ rstate' = [rstate EXCEPT ![k] = "exited"]
              /\ rerr' = [rerr EXCEPT ![k] = "ConnectionClosed"]
         ELSE IF \E j \in LinkIds : j # k /\ rstate[j] = "running" /\ rlink[j] = conn
         THEN /\ rstate' = [rstate EXCEPT ![k] = "exited"]
              /\ rerr' = [rerr EXCEPT ![k] = "ConcurrentRecv"]
         ELSE /\ rstate' = [rstate EXCEPT ![k] = "running"]
              /\ UNCHANGED rerr
    /\ UNCHANGED clientRest
    /\ UNCHANGED <<conn, linkOpen, pending, fut, cpc, cout, src,
                   removed>>

\* ReceiverBody with the reply matched to the oldest entry of the table
\* instead of the entry of the frame's id
ReceiverBodyOldest(f) ==
    IF f.kind = "garbage"
      THEN <<pending, fut, removed, "none">>
    ELSE IF f.kind = "nonobject"
      THEN <<pending, fut, removed, "AttributeError">>
    ELSE IF f.idk = "unhashable"
      THEN <<pending, fut, removed, "TypeError">>
    ELSE IF f.idk # "call" \/ pending = {}
      THEN <<pending, fut, removed, "none">>
    ELSE LET o == CHOOSE j \in pending : \A m \in pending : j <= m IN
      IF fut[o].st # "pending"
        THEN <<pending \ {o}, fut, [removed EXCEPT ![o] = @ + 1], "InvalidStateError">>
      ELSE IF f.key = "result"
        THEN <<pending \ {o}, [fut EXCEPT ![o] = [st |-> "result", val |-> f.val]],
               [removed EXCEPT ![o] = @ + 1], "none">>
      ELSE  <<pending \ {o},
              [fut EXCEPT ![o] = [st |-> "exception",
                                  val |-> IF f.key = "error" THEN f.val ELSE "None"]],
              [removed EXCEPT ![o] = @ + 1], "none">>

\* what the body of the receiver loop does with frame f: <<pending, fut,
\* removed, exception>>; exception "none" means the loop goes on to the next frame
ReceiverBody(f) ==
    IF f.kind = "garbage"
      THEN <<pending, fut, removed, "none">>                  \* except: continue
    ELSE IF f.kind = "nonobject"
      THEN <<pending, fut, removed, "AttributeError">>        \* msg.get
    ELSE IF f.idk = "unhashable"
      THEN <<pending, fut, removed, "TypeError">>             \* msg_id in self._pending
    ELSE IF f.idk # "call" \/ f.id \notin pending
      THEN <<pending, fut, removed, "none">>
    ELSE IF fut[f.id].st # "pending"
      THEN <<pending \ {f.id}, fut, [removed EXCEPT ![f.id] = @ + 1],
             "InvalidStateError">>                            \* set_result on a done future
    ELSE IF f.key = "result"
      THEN <<pending \ {f.id}, [fut EXCEPT ![f.id] = [st |-> "result", val |-> f.val]],
             [removed EXCEPT ![f.id] = @ + 1], "none">>
    ELSE  <<pending \ {f.id},
            [fut EXCEPT ![f.id] = [st |-> "exception",
                                   val |-> IF f.key = "error" THEN f.val ELSE "None"]],
            [removed EXCEPT ![f.id] = @ + 1], "none">>

\* receiver k reads frame f from its link and runs the loop body on it
ReceiverRead(k, f) ==
    /\ rstate[k] = "running"
    /\ linkOpen[rlink[k]]
    /\ f \in Frames
    /\ LET b == ReceiverBody(f) IN
         /\ pending' = b[1]
         /\ fut' = b[2]
         /\ src' = [i \in CallIds |-> IF b[2][i] # fut[i] THEN f ELSE src[i]]
         /\ removed' = b[3]
         /\ IF b[4] = "none"
              THEN UNCHANGED <<rstate, rerr>>
              ELSE /\ rstate' = [rstate EXCEPT ![k] = "exited"]
                   /\ rerr' = [rerr EXCEPT ![k] = b[4]]
    /\ UNCHANGED clientRest
    /\ UNCHANGED <<conn, linkOpen, rlink, cpc, cout>>

\* the link of receiver k is closed: the iteration ends (or raises
\* ConnectionClosedError into "except: pass") and the task returns
ReceiverExit(k) ==
    /\ rstate[k] = "running"
    /\ ~linkOpen[rlink[k]]
    /\ rstate' = [rstate EXCEPT ![k] = "exited"]
    /\ rerr' = [rerr EXCEPT ![k] = "ConnectionClosed"]
    /\ UNCHANGED clientRest
    /\ UNCHANGED <<conn, linkOpen, rlink, pending, fut, cpc, cout,
                   src, removed>>

\* ----------------------------------------------------------- MCPClient._rpc
\* _rpc up to its await of the future: a fresh id, a new future, the entry in
\* _pending, then the send, which raises when _conn is None or closed
RpcCall(i) ==
    /\ cpc[i] = "idle"
    /\ fut' = [fut EXCEPT ![i] = [st |-> "pending", val |-> "none"]]
    /\ pending' = pending \cup {i}
    /\ IF conn = 0
         THEN /\ cpc' = [cpc EXCEPT ![i] = "done"]
              /\ cout' = [cout EXCEPT ![i] = [kind |-> "sendfail", val |-> "AttributeError"]]
         ELSE IF ~linkOpen[conn]
         THEN /\ cpc' = [cpc EXCEPT ![i] = "done"]
              /\ cout' = [cout EXCEPT ![i] = [kind |-> "sendfail", val |-> "ConnectionClosed"]]
         ELSE /\ cpc' = [cpc EXCEPT ![i] = "waiting"]
              /\ UNCHANGED cout
    /\ UNCHANGED clientRest
    /\ UNCHANGED <<conn, linkOpen, rstate, rlink, rerr, src, removed>>

\* asyncio.wait_for returns the future's result or raises its exception
RpcReturn(i) ==
    /\ cpc[i] = "waiting"
    /\ fut[i].st \in {"result", "exception"}
    /\ cpc' = [cpc EXCEPT ![i] = "done"]
    /\ cout' = [cout EXCEPT ![i] =
                  [kind |-> IF fut[i].st = "result" THEN "returned" ELSE "raised",
                   val |-> fut[i].val]]
    /\ UNCHANGED clientRest
    /\ UNCHANGED <<conn, linkOpen, rstate, rlink, rerr, pending, fut,
                   src, removed>>

\* asyncio.wait_for reaches the timeout: it cancels the future and raises
\* TimeoutError; _rpc has no handler, so nothing else happens
RpcTimeout(i) ==
    /\ cpc[i] = "waiting"
    /\ fut[i].st = "pending"
    /\ fut' = [fut EXCEPT ![i] = [st |-> "cancelled", val |-> "none"]]
    /\ cpc' = [cpc EXCEPT ![i] = "done"]
    /\ cout' = [cout EXCEPT ![i] = [kind |-> "timeout", val |-> "TimeoutError"]]
    /\ UNCHANGED clientRest
    /\ UNCHANGED <<conn, linkOpen, rstate, rlink, rerr, pending,
                   src, removed>>

\* ====================================================================
\* ws_handler: one downstream session of the server
\* ====================================================================
\* number of frames a session receives in one behaviour
MaxFrames == 2

\* request ids a frame can carry; NullId stands for null or an absent "id"
NullId == 0
ReqIds == {NullId, 1, 2}

\* JSON-RPC error codes used by ws_handler
ParseErrorCode == -32700
InvalidRequestCode == -32600
MethodNotFoundCode == -32601
InvalidParamsCode == -32602
ServerErrorCode == -32000

\* The registry the session is given (ToolRegistry.tools): the type member of
\* each normalized descriptor; "absent" is a descriptor without "type",
\* "empty" the descriptor {} that normalize_method_spec gives a raw entry
\* that is neither an object nor a string.
ToolType ==
    [n \in {"g.py", "g.api", "g.script", "g.odd", "g.str", "g.empty"} |->
        CASE n = "g.py" -> "python_function"
          [] n = "g.api" -> "external_api"
          [] n = "g.script" -> "script"
          [] n = "g.odd" -> "odd_type"
          [] n = "g.str" -> "absent"
          [] OTHER -> "empty"]

ToolNames == DOMAIN ToolType

\* ToolRegistry.get_tool followed by the handler's "if not spec": the
\* descriptor is missing or falsy
NotFound(name) == name \notin ToolNames \/ ToolType[name] = "empty"

\* A frame of the session. shape: "badjson" (json.loads raises), "nonobject"
\* (valid JSON that is no object), "object". method: "none" (absent or falsy)
\* or the method name. params: "object" or "nonobject". name: the "name"
\* member of params: "none" (absent or falsy), "unhashable" (a JSON array or
\* object), "unknown" (a string that names no tool) or a tool name.
SFrame(shape, id, method, params, name) ==
    [shape |-> shape, id |-> id, method |-> method, params |-> params, name |-> name]

NameValues == {"none", "unhashable", "unknown"} \cup ToolNames

SFrames ==
    {SFrame("badjson", NullId, "none", "object", "none"),
     SFrame("nonobject", NullId, "none", "object", "none")}
    \cup {SFrame("object", i, m, "object", "none") :
            i \in ReqIds, m \in {"none", "list_tools", "other"}}
    \cup {SFrame("object", i, m, "nonobject", "none") :
            i \in ReqIds, m \in {"tool_info", "call_tool"}}
    \cup {SFrame("object", i, m, "object", n) :
            i \in ReqIds, m \in {"tool_info", "call_tool"}, n \in NameValues}

ServerInit ==
    /\ spc = "read"
    /\ recv = <<>>
    /\ sent = <<>>
    /\ execd = <<>>
    /\ effects = {}
    /\ endedBy = "none"

\* ------------------------------------------------- initial states of the
\* other components
\* the sessions served by one event loop, and the frames one session sends
MaxSessions == 2
MaxArrivals == 2
Sessions == 1..MaxSessions
NoSession == 0

LoopInit ==
    /\ lpc = [s \in Sessions |-> "read"]
    /\ inbox = [s \in Sessions |-> <<>>]
    /\ answered = [s \in Sessions |-> 0]
    /\ holder = NoSession

\* a value of sresult: kind is "notrun", "json" (num is the parsed value),
\* "text" (text is the returned string), "none", "RuntimeError" (text is the
\* message) or "TimeoutExpired"
SResult(kind, num, text) == [kind |-> kind, num |-> num, text |-> text]
NotRun == SResult("notrun", 0, <<>>)

ScriptIdle ==
    /\ returncode = 0
    /\ stdout = <<>>
    /\ stderr = <<>>
    /\ sresult = NotRun

\* a value of merged: the function called and the list it returned
Merged(fn, val) == [fn |-> fn, val |-> val]
NotCalled == Merged("none", <<>>)

MergeInit ==
    /\ msets = <<>>
    /\ merged = NotCalled

\* a value of context_last: None, a list (l) or an integer (n)
LastNone == [t |-> "none", l |-> <<>>, n |-> 0]
LastList(l) == [t |-> "list", l |-> l, n |-> 0]
LastInt(n) == [t |-> "int", l |-> <<>>, n |-> n]

Snapshot(tr, last, pend) == [tool_results |-> tr, context_last |-> last, pending_merges |-> pend]

PlanInit ==
    /\ steps = <<>>
    /\ phase = "run"
    /\ tool_results = <<>>
    /\ context_last = LastNone
    /\ pending_merges = <<>>
    /\ before = Snapshot(<<>>, LastNone, <<>>)

\* a dict is the sequence of its <<key, value>> pairs in insertion order
EmptyDict == <<>>

\* self.tools before _build has run
NotBuilt == <<<<<<"not built">>, EmptyDict>>>>

RegistryInit ==
    /\ tools_section = <<>>
    /\ tools = NotBuilt

\* a raw method descriptor: a dict (fields), a string (text) or anything else
Raw(kind, fields, text) == [kind |-> kind, fields |-> fields, text |-> text]
RawOther == Raw("other", EmptyDict, <<>>)
NotNormalized == <<<<"not normalized", <<>>>>>>

NormalizeIdle ==
    /\ raw = RawOther
    /\ safe_spec = NotNormalized

\* the local `message`: not bound yet, or the value json.loads gave last, an
\* object with its "id" member or some other value
NoWsId == 0
MessageUnbound == [kind |-> "unbound", id |-> NoWsId]
MessageObject(i) == [kind |-> "object", id |-> i]
MessageOther == [kind |-> "other", id |-> NoWsId]

CrudInit ==
    /\ students = {}
    /\ wsreplies = <<>>
    /\ wsids = <<>>
    /\ message = MessageUnbound
    /\ wsstate = "open"

ExecuteInit == calls = <<>>

\* the initial state of every component but execute_script
InitOthers ==
    /\ ClientInit /\ ServerInit /\ LoopInit /\ MergeInit /\ PlanInit
    /\ ExecuteInit /\ RegistryInit /\ CrudInit

Init == InitOthers /\ ScriptIdle /\ NormalizeIdle

\* rpc_result / rpc_error
rpc_result(msg_id) == [id |-> msg_id, kind |-> "result", code |-> 0]
rpc_error(msg_id, code) == [id |-> msg_id, kind |-> "error", code |-> code]

\* what execute_tool can do for a descriptor whose type member is t: "ok",
\* "unserializable" (a result that json.dumps in rpc_result rejects), or the
\* exception it raises:
\*   python_function: ValueError (schema construction failed), RuntimeError
\*     (the callee raised);
\*   absent (the bare-string descriptor, dispatched as python_function):
\*     KeyError, it has no "func";
\*   external_api: HTTPStatusError (raise_for_status on a non-2xx reply);
\*   script: RuntimeError (nonzero exit), TimeoutExpired;
\*   any other type: ValueError (unknown tool type).
ExecOutcomes(t) ==
    CASE t = "python_function" -> {"ok", "unserializable", "ValueError", "RuntimeError"}
      [] t = "absent" -> {"KeyError"}
      [] t = "external_api" -> {"ok", "HTTPStatusError"}
      [] t = "script" -> {"ok", "RuntimeError", "TimeoutExpired"}
      [] OTHER -> {"ValueError"}

\* json.loads raised: the reply, and where the loop goes next
OnParseErrorBreak == [out |-> <<>>, next |-> "closed", err |-> "JSONDecodeError"]

OnParseError ==
    [out |-> <<rpc_error(NullId, ParseErrorCode)>>, next |-> "read", err |-> "none"]

\* message.get on a value that is no object raises AttributeError outside the
\* inner try: the outer "except Exception" logs it and the handler returns
OnNonObject == [out |-> <<>>, next |-> "closed", err |-> "AttributeError"]

\* the tool_info branch
ToolInfo(f) ==
    IF f.params = "nonobject" \/ f.name = "unhashable"
      THEN rpc_error(f.id, ServerErrorCode)       \* params.get / dict lookup raises
    ELSE IF f.name = "none" THEN rpc_error(f.id, InvalidParamsCode)
    ELSE IF NotFound(f.name) THEN rpc_error(f.id, MethodNotFoundCode)
    ELSE rpc_result(f.id)

\* CallToolPrecheck with the descriptor taken by subscript (tools[name]): an
\* unknown name raises KeyError, which the generic handler answers
CallToolPrecheckSubscript(f) ==
    IF f.params = "nonobject" \/ f.name = "unhashable"
      THEN [dispatch |-> FALSE, reply |-> rpc_error(f.id, ServerErrorCode)]
    ELSE IF f.name = "none"
      THEN [dispatch |-> FALSE, reply |-> rpc_error(f.id, InvalidParamsCode)]
    ELSE IF f.name \notin ToolNames
      THEN [dispatch |-> FALSE, reply |-> rpc_error(f.id, ServerErrorCode)]
    ELSE IF NotFound(f.name)
      THEN [dispatch |-> FALSE, reply |-> rpc_error(f.id, MethodNotFoundCode)]
    ELSE [dispatch |-> TRUE, reply |-> rpc_result(f.id)]

\* the call_tool branch up to execute_tool: the reply sent without dispatch,
\* or "dispatch"
CallToolPrecheck(f) ==
    IF f.params = "nonobject" \/ f.name = "unhashable"
      THEN [dispatch |-> FALSE, reply |-> rpc_error(f.id, ServerErrorCode)]
    ELSE IF f.name = "none"
      THEN [dispatch |-> FALSE, reply |-> rpc_error(f.id, InvalidParamsCode)]
    ELSE IF NotFound(f.name)
      THEN [dispatch |-> FALSE, reply |-> rpc_error(f.id, MethodNotFoundCode)]
    ELSE [dispatch |-> TRUE, reply |-> rpc_result(f.id)]

\* HandleFrame with execute_tool started as a task of its own: the loop goes
\* back to read the next frame at once
HandleFrameDetached(f) ==
    IF f.shape = "badjson" THEN OnParseError
    ELSE IF f.shape = "nonobject" THEN OnNonObject
    ELSE IF f.method = "none"
      THEN [out |-> <<rpc_error(f.id, InvalidRequestCode)>>, next |-> "read", err |-> "none"]
    ELSE IF f.method = "list_tools"
      THEN [out |-> <<rpc_result(f.id)>>, next |-> "read", err |-> "none"]
    ELSE IF f.method = "tool_info"
      THEN [out |-> <<ToolInfo(f)>>, next |-> "read", err |-> "none"]
    ELSE IF f.method = "call_tool"
      THEN IF CallToolPrecheck(f).dispatch
             THEN [out |-> <<>>, next |-> "read", err |-> "none"]
             ELSE [out |-> <<CallToolPrecheck(f).reply>>, next |-> "read", err |-> "none"]
    ELSE [out |-> <<rpc_error(f.id, MethodNotFoundCode)>>, next |-> "read", err |-> "none"]

\* the body of the frame loop for frame f, up to the next await of a frame or
\* of execute_tool
HandleFrame(f) ==
    IF f.shape = "badjson" THEN OnParseError
    ELSE IF f.shape = "nonobject" THEN OnNonObject
    ELSE IF f.method = "none"
      THEN [out |-> <<rpc_error(f.id, InvalidRequestCode)>>, next |-> "read", err |-> "none"]
    ELSE IF f.method = "list_tools"
      THEN [out |-> <<rpc_result(f.id)>>, next |-> "read", err |-> "none"]
    ELSE IF f.method = "tool_info"
      THEN [out |-> <<ToolInfo(f)>>, next |-> "read", err |-> "none"]
    ELSE IF f.method = "call_tool"
      THEN IF CallToolPrecheck(f).dispatch
             THEN [out |-> <<>>, next |-> "exec", err |-> "none"]
             ELSE [out |-> <<CallToolPrecheck(f).reply>>, next |-> "read", err |-> "none"]
    ELSE [out |-> <<rpc_error(f.id, MethodNotFoundCode)>>, next |-> "read", err |-> "none"]

\* replies rs tagged with the index k of the frame they answer
Tagged(rs, k) == [j \in 1..Len(rs) |-> [for |-> k, id |-> rs[j].id,
                                         kind |-> rs[j].kind, code |-> rs[j].code]]

\* the loop reads frame f and handles it
ReadFrame(f) ==
    /\ spc = "read"
    /\ Len(recv) < MaxFrames
    /\ recv' = Append(recv, f)
    /\ LET h == HandleFrame(f) IN
         /\ sent' = sent \o Tagged(h.out, Len(recv) + 1)
         /\ spc' = h.next
         /\ endedBy' = h.err
    /\ UNCHANGED <<execd, effects>>
    /\ UNCHANGED serverRest

\* ExecEffects with the DB session opened before the type is looked at
ExecEffectsSessionFirst(t, o) ==
    CASE t \in {"external_api"} -> {"db_session", "http"}
      [] t = "script" -> {"db_session", "subprocess"}
      [] t \in {"python_function", "absent"} ->
             IF o \in {"ValueError", "KeyError"} THEN {"db_session"}
             ELSE {"db_session", "callable"}
      [] OTHER -> {"db_session"}

\* the side effects execute_tool has had when it ends with outcome o for a
\* descriptor whose type member is t: python_function opens a DB session in
\* a worker thread and then calls the callable (not reached when the schema
\* construction or the lookup of "func" fails); external_api issues the HTTP
\* request; script runs the subprocess; any other type raises at once
ExecEffects(t, o) ==
    CASE t \in {"python_function", "absent"} ->
             IF o \in {"ValueError", "KeyError"} THEN {"db_session"}
             ELSE {"db_session", "callable"}
      [] t = "external_api" -> {"http"}
      [] t = "script" -> {"subprocess"}
      [] OTHER -> {}

\* the effects of the execute_tool call for the last frame read
EffectsNow(o) ==
    effects \cup {<<Len(recv), e>> : e \in ExecEffects(ToolType[recv[Len(recv)].name], o)}

\* ExecReply with the reply built without the request's id
ExecReplyNoId(f, o) ==
    IF o = "ok" THEN rpc_result(NullId) ELSE rpc_error(NullId, ServerErrorCode)

\* the reply of the call_tool branch once execute_tool has returned or raised
ExecReply(f, o) ==
    IF o = "ok" THEN rpc_result(f.id) ELSE rpc_error(f.id, ServerErrorCode)

\* ExecDone without the try/except around execute_tool: a failure reaches
\* the outer handler
ExecDoneUnwrapped(o) ==
    /\ spc = "exec"
    /\ o \in ExecOutcomes(ToolType[recv[Len(recv)].name])
    /\ execd' = Append(execd, <<Len(recv), o>>)
    /\ IF o = "ok"
         THEN /\ sent' = sent \o Tagged(<<rpc_result(recv[Len(recv)].id)>>, Len(recv))
              /\ spc' = "read"
              /\ UNCHANGED endedBy
         ELSE /\ spc' = "closed"
              /\ endedBy' = o
              /\ UNCHANGED sent
    /\ effects' = EffectsNow(o)
    /\ UNCHANGED <<recv, serverRest>>

\* execute_tool ends with outcome o: the reply is sent and the loop continues
ExecDone(o) ==
    /\ spc = "exec"
    /\ o \in ExecOutcomes(ToolType[recv[Len(recv)].name])
    /\ execd' = Append(execd, <<Len(recv), o>>)
    /\ sent' = sent \o Tagged(<<ExecReply(recv[Len(recv)], o)>>, Len(recv))
    /\ spc' = "read"
    /\ effects' = EffectsNow(o)
    /\ UNCHANGED <<recv, endedBy, serverRest>>

\* the transport disconnects while the loop waits for a frame: the iteration
\* ends (or raises ConnectionClosed) and the handler returns
Disconnect ==
    /\ spc = "read"
    /\ spc' = "closed"
    /\ endedBy' = "disconnect"
    /\ UNCHANGED <<recv, sent, execd, effects, serverRest>>

\* the transport disconnects while execute_tool runs: the send of the reply
\* raises ConnectionClosed, and so does the send of the handlers around it
DisconnectInExec(o) ==
    /\ spc = "exec"
    /\ o \in ExecOutcomes(ToolType[recv[Len(recv)].name])
    /\ execd' = Append(execd, <<Len(recv), o>>)
    /\ spc' = "closed"
    /\ endedBy' = "send_failed"
    /\ effects' = EffectsNow(o)
    /\ UNCHANGED <<recv, sent, serverRest>>

Outcomes == {"ok", "unserializable", "ValueError", "RuntimeError", "KeyError",
             "HTTPStatusError", "TimeoutExpired"}

ServerNext ==
    \/ \E f \in SFrames : ReadFrame(f)
    \/ \E o \in Outcomes : ExecDone(o)
    \/ Disconnect
    \/ \E o \in Outcomes : DisconnectInExec(o)

SpecServer == Init /\ [][ServerNext]_vars

ClientNext ==
    \/ \E k \in LinkIds : connect(k)
    \/ close
    \/ \E l \in LinkIds : LinkDrop(l)
    \/ \E k \in LinkIds : ReceiverStart(k)
    \/ \E k \in LinkIds : \E f \in Frames : ReceiverRead(k, f)
    \/ \E k \in LinkIds : ReceiverExit(k)
    \/ \E i \in CallIds : RpcCall(i)
    \/ \E i \in CallIds : RpcReturn(i)
    \/ \E i \in CallIds : RpcTimeout(i)

SpecClient == Init /\ [][ClientNext]_vars

\* ====================================================================
\* serve: the sessions of one event loop
\* ====================================================================
\* what a frame asks for: list_tools (answered without awaiting anything) or
\* call_tool of a tool of one of the three types
FrameKinds == {"list_tools", "python_function", "external_api", "script"}

\* the tools that are running for a session
Running == {"thread", "http", "subprocess"}

\* a frame of kind k arrives on session s; arrival needs no step of the loop
Arrive(s, k) ==
    /\ Len(inbox[s]) + answered[s] + (IF lpc[s] \in Running THEN 1 ELSE 0) < MaxArrivals
    /\ inbox' = [inbox EXCEPT ![s] = Append(@, k)]
    /\ UNCHANGED <<lpc, answered, holder>>
    /\ UNCHANGED loopRest

\* the loop resumes the ws_handler of session s, which reads its next frame
\* and dispatches it: list_tools is answered; python_function is handed to a
\* worker thread (asyncio.to_thread) and external_api awaits the httpx
\* request, both giving the loop back; script calls subprocess.run in the
\* coroutine itself, which keeps the loop's thread until the child exits
ReadAndDispatch(s) ==
    /\ holder = NoSession
    /\ lpc[s] = "read"
    /\ inbox[s] # <<>>
    /\ inbox' = [inbox EXCEPT ![s] = Tail(@)]
    /\ LET k == Head(inbox[s]) IN
         /\ lpc' = [lpc EXCEPT ![s] =
                CASE k = "list_tools" -> "read"
                  [] k = "python_function" -> "thread"
                  [] k = "external_api" -> "http"
                  [] k = "script" -> "subprocess"]
         /\ answered' = [answered EXCEPT ![s] = IF k = "list_tools" THEN @ + 1 ELSE @]
         /\ holder' = IF k = "script" THEN s ELSE NoSession
    /\ UNCHANGED loopRest

\* the worker thread or the HTTP request of session s has finished and the
\* loop resumes the coroutine, which sends the reply
AwaitReturn(s) ==
    /\ holder = NoSession
    /\ lpc[s] \in {"thread", "http"}
    /\ lpc' = [lpc EXCEPT ![s] = "read"]
    /\ answered' = [answered EXCEPT ![s] = @ + 1]
    /\ UNCHANGED <<inbox, holder>>
    /\ UNCHANGED loopRest

\* subprocess.run returns (exit or timeout) in session s: the coroutine goes
\* on to its reply and gives the loop back
SubprocessReturn(s) ==
    /\ holder = s
    /\ lpc[s] = "subprocess"
    /\ lpc' = [lpc EXCEPT ![s] = "read"]
    /\ answered' = [answered EXCEPT ![s] = @ + 1]
    /\ holder' = NoSession
    /\ UNCHANGED inbox
    /\ UNCHANGED loopRest

LoopNext ==
    \/ \E s \in Sessions, k \in FrameKinds : Arrive(s, k)
    \/ \E s \in Sessions : ReadAndDispatch(s)
    \/ \E s \in Sessions : AwaitReturn(s)
    \/ \E s \in Sessions : SubprocessReturn(s)

SpecLoop == Init /\ [][LoopNext]_vars

\* ====================================================================
\* execute_script: the result of one subprocess run
\* ====================================================================
\* the longest captured stdout and stderr
MaxOut == 3
MaxErr == 2

\* the characters of the captured text: whitespace, two digits, a letter
Chars == {" ", "0", "1", "x"}
Digits == {"0", "1"}
Texts(n) == UNION {[1..k -> Chars] : k \in 0..n}
ReturnCodes == {0, 1, -9}

\* str.strip(): the text without its leading and trailing whitespace
strip(s) ==
    LET solid == {i \in 1..Len(s) : s[i] # " "} IN
        IF solid = {} THEN <<>>
        ELSE SubSeq(s, CHOOSE i \in solid : \A j \in solid : i <= j,
                       CHOOSE i \in solid : \A j \in solid : i >= j)

\* the texts json.loads accepts, over Chars: a number without a leading zero
JsonValid(s) ==
    /\ Len(s) > 0
    /\ \A i \in 1..Len(s) : s[i] \in Digits
    /\ Len(s) > 1 => s[1] # "0"

RECURSIVE JsonNumber(_)
\* the value json.loads gives for a valid text
JsonNumber(s) ==
    IF s = <<>> THEN 0
    ELSE 10 * JsonNumber(SubSeq(s, 1, Len(s) - 1)) + (IF s[Len(s)] = "1" THEN 1 ELSE 0)

\* the text of the RuntimeError: "script failed: " and the stripped stderr
ScriptFailed == <<"script failed: ">>

\* script_result with the stdout handed to json.loads whether or not it is empty
script_result_always_parsed(rc, out, err) ==
    IF rc # 0 THEN SResult("RuntimeError", 0, ScriptFailed \o strip(err))
    ELSE IF JsonValid(strip(out)) THEN SResult("json", JsonNumber(strip(out)), <<>>)
    ELSE SResult("text", 0, strip(out))

\* what execute_script does with a completed process
script_result(rc, out, err) ==
    IF rc # 0 THEN SResult("RuntimeError", 0, ScriptFailed \o strip(err))
    ELSE IF strip(out) = <<>> THEN SResult("none", 0, <<>>)
    ELSE IF JsonValid(strip(out)) THEN SResult("json", JsonNumber(strip(out)), <<>>)
    ELSE SResult("text", 0, strip(out))

\* the completed processes execute_script is run on
ScriptInputs ==
    /\ returncode \in ReturnCodes
    /\ stdout \in Texts(MaxOut)
    /\ stderr \in Texts(MaxErr)
    /\ sresult = NotRun

\* the child exits within the timeout
execute_script ==
    /\ sresult = NotRun
    /\ sresult' = script_result(returncode, stdout, stderr)
    /\ UNCHANGED <<returncode, stdout, stderr>>
    /\ UNCHANGED scriptRest

\* the child does not exit within the timeout: subprocess.run raises
\* TimeoutExpired, whatever the child would have written
execute_script_timeout ==
    /\ sresult = NotRun
    /\ sresult' = SResult("TimeoutExpired", 0, <<>>)
    /\ UNCHANGED <<returncode, stdout, stderr>>
    /\ UNCHANGED scriptRest

ScriptNext == execute_script \/ execute_script_timeout

InitScript == InitOthers /\ ScriptInputs /\ NormalizeIdle

SpecScript == InitScript /\ [][ScriptNext]_vars

\* ====================================================================
\* PlanExecutor: the merge functions
\* ====================================================================
\* the records of all the lists together, the ids, the lists of one call
MaxItems == 4
MaxId == 2
MaxSets == 3

\* a record (dict) of a result list. id is the value of its "id" member, or
\* NoIdMember when it has none; list and pos say which record it is: the
\* pos-th of list number `list`
NoIdMember == 0
Rec(i, k, p) == [id |-> i, list |-> k, pos |-> p]
HasId(item) == item.id # NoIdMember

\* the list number k whose records have the ids in `ids`, in this order
Recs(ids, k) == [p \in 1..Len(ids) |-> Rec(ids[p], k, p)]

\* a dict is the sequence of its <<key, value>> pairs in insertion order
Keys(d) == {d[n][1] : n \in 1..Len(d)}
DictGet(d, k) == d[CHOOSE n \in 1..Len(d) : d[n][1] = k][2]
DictValues(d) == [n \in 1..Len(d) |-> d[n][2]]

\* DictSet that leaves a key that is present alone
DictSetKeepFirst(d, k, v) ==
    IF k \in Keys(d) THEN d ELSE Append(d, <<k, v>>)

\* d[k] = v: a key that is present keeps its place and takes the new value
DictSet(d, k, v) ==
    IF k \in Keys(d)
      THEN [n \in 1..Len(d) |-> IF d[n][1] = k THEN <<k, v>> ELSE d[n]]
      ELSE Append(d, <<k, v>>)

RECURSIVE DictOfItems(_, _)
\* d after d[item["id"]] = item for every item of lst that has an id, in order
DictOfItems(lst, d) ==
    IF lst = <<>> THEN d
    ELSE DictOfItems(Tail(lst),
                     IF HasId(Head(lst)) THEN DictSet(d, Head(lst).id, Head(lst)) ELSE d)

index_by_id(lst) == DictOfItems(lst, <<>>)

RECURSIVE Ascending(_)
\* the members of a set of ids in the order a Python set of small
\* non-negative integers is iterated: ascending
Ascending(S) ==
    IF S = {} THEN <<>>
    ELSE LET m == CHOOSE x \in S : \A y \in S : x <= y IN <<m>> \o Ascending(S \ {m})

\* the ids that are keys of every map of maps
CommonIds(maps) == {i \in Keys(maps[1]) : \A k \in 2..Len(maps) : i \in Keys(maps[k])}

\* merge_intersect that looks at the first two lists only
merge_intersect_first_two(results) ==
    IF Len(results) < 2
      THEN IF results # <<>> THEN results[Len(results)] ELSE <<>>
      ELSE LET maps == [k \in 1..2 |-> index_by_id(results[k])]
               common_ids == Ascending(CommonIds(maps))
           IN [n \in 1..Len(common_ids) |-> DictGet(maps[1], common_ids[n])]

merge_intersect(results) ==
    IF Len(results) < 2
      THEN IF results # <<>> THEN results[Len(results)] ELSE <<>>
      ELSE LET maps == [k \in 1..Len(results) |-> index_by_id(results[k])]
               common_ids == Ascending(CommonIds(maps))
           IN [n \in 1..Len(common_ids) |-> DictGet(maps[1], common_ids[n])]

RECURSIVE DictOfLists(_, _)
\* d after every list of results has been put into it, in order
DictOfLists(results, d) ==
    IF results = <<>> THEN d
    ELSE DictOfLists(Tail(results), DictOfItems(Head(results), d))

merge_union(results) == DictValues(DictOfLists(results, <<>>))

\* merge_difference that keeps the keys that are in b
merge_difference_kept(a, b) ==
    LET amap == index_by_id(a)
        bmap == index_by_id(b)
    IN DictValues(SelectSeq(amap, LAMBDA kv : kv[1] \in Keys(bmap)))

merge_difference(a, b) ==
    LET amap == index_by_id(a)
        bmap == index_by_id(b)
    IN DictValues(SelectSeq(amap, LAMBDA kv : kv[1] \notin Keys(bmap)))

RECURSIVE TotalItems(_)
TotalItems(lists) ==
    IF lists = <<>> THEN 0 ELSE Len(Head(lists)) + TotalItems(Tail(lists))

\* the caller starts one more list
NewList ==
    /\ merged = NotCalled
    /\ Len(msets) < MaxSets
    /\ msets' = Append(msets, <<>>)
    /\ UNCHANGED merged
    /\ UNCHANGED mergeRest

\* the caller appends a record with id i (or without an id) to the newest list
AddItem(i) ==
    /\ merged = NotCalled
    /\ msets # <<>>
    /\ TotalItems(msets) < MaxItems
    /\ LET k == Len(msets) IN
         msets' = [msets EXCEPT ![k] = Append(@, Rec(i, k, Len(@) + 1))]
    /\ UNCHANGED merged
    /\ UNCHANGED mergeRest

CallIntersect ==
    /\ merged = NotCalled
    /\ merged' = Merged("intersect", merge_intersect(msets))
    /\ UNCHANGED msets
    /\ UNCHANGED mergeRest

CallUnion ==
    /\ merged = NotCalled
    /\ merged' = Merged("union", merge_union(msets))
    /\ UNCHANGED msets
    /\ UNCHANGED mergeRest

\* merge_difference is called on the first two lists, as execute calls it
CallDifference ==
    /\ merged = NotCalled
    /\ Len(msets) >= 2
    /\ merged' = Merged("difference", merge_difference(msets[1], msets[2]))
    /\ UNCHANGED msets
    /\ UNCHANGED mergeRest

MergeNext ==
    \/ NewList
    \/ \E i \in 0..MaxId : AddItem(i)
    \/ CallIntersect
    \/ CallUnion
    \/ CallDifference

SpecMerge == Init /\ [][MergeNext]_vars

\* ====================================================================
\* PlanExecutor.execute: the step loop
\* ====================================================================
\* the steps of one plan
MaxSteps == 4

\* the binary merge operators
Binary == {"intersect", "union", "difference"}

\* the ids of the lists a tool call returns here (NoIdMember: a record
\* without an id): empty, overlapping lists, five items, a duplicated id
ToolIdLists == {<<>>, <<1, 2, 3>>, <<2, 3, 4>>, <<1, 2, 3, 4, 5>>, <<1, 0, 1>>}

\* a step: kind "tool" (ids: what call_tool returns; "fail": call_tool
\* raised or returned no list), "merge" (op), "other" (neither member)
Step(kind, op, ids) == [kind |-> kind, op |-> op, ids |-> ids]

\* apply_merge_op that keeps the lists and appends the merged one
apply_merge_op_append(op, tr, last) ==
    CASE op = "intersect" ->
             LET m == merge_intersect(tr) IN [tr |-> Append(tr, m), last |-> LastList(m)]
      [] op = "union" ->
             LET m == merge_union(tr) IN [tr |-> Append(tr, m), last |-> LastList(m)]
      [] op = "difference" ->
             IF Len(tr) < 2 THEN [tr |-> tr, last |-> last]
             ELSE LET m == merge_difference(tr[1], tr[2])
                  IN [tr |-> Append(tr, m), last |-> LastList(m)]

\* _apply_merge_op: the lists and context_last after the operator
apply_merge_op(op, tr, last) ==
    CASE op = "intersect" ->
             LET m == merge_intersect(tr) IN [tr |-> <<m>>, last |-> LastList(m)]
      [] op = "union" ->
             LET m == merge_union(tr) IN [tr |-> <<m>>, last |-> LastList(m)]
      [] op = "difference" ->
             IF Len(tr) < 2 THEN [tr |-> tr, last |-> last]
             ELSE LET m == merge_difference(tr[1], tr[2])
                  IN [tr |-> <<m>>, last |-> LastList(m)]

\* DrainAfterTool that applies the head operator and leaves it deferred
DrainAfterToolKeep(tr, last, pend) ==
    IF pend # <<>> /\ Len(tr) >= 2
      THEN LET r == apply_merge_op(Head(pend), tr, last)
           IN Snapshot(r.tr, r.last, pend)
      ELSE Snapshot(tr, last, pend)

\* DrainAfterTool that leaves context_last at the list the tool returned
DrainAfterToolStaleLast(tr, last, pend) ==
    IF pend # <<>> /\ Len(tr) >= 2
      THEN LET r == apply_merge_op(Head(pend), tr, last)
           IN Snapshot(r.tr, last, Tail(pend))
      ELSE Snapshot(tr, last, pend)

\* DrainAfterTool that applies nothing
DrainAfterToolNever(tr, last, pend) == Snapshot(tr, last, pend)

\* DrainAfterTool that takes the newest deferred operator, not the oldest
DrainAfterToolTail(tr, last, pend) ==
    IF pend # <<>> /\ Len(tr) >= 2
      THEN LET r == apply_merge_op(pend[Len(pend)], tr, last)
           IN Snapshot(r.tr, r.last, SubSeq(pend, 1, Len(pend) - 1))
      ELSE Snapshot(tr, last, pend)

RECURSIVE DrainAfterTool(_, _, _)
\* the loop after a tool result: the head operator is applied as long as two
\* lists are there
DrainAfterTool(tr, last, pend) ==
    IF pend # <<>> /\ Len(tr) >= 2
      THEN LET r == apply_merge_op(Head(pend), tr, last)
           IN DrainAfterTool(r.tr, r.last, Tail(pend))
      ELSE Snapshot(tr, last, pend)

RECURSIVE DrainPendingForced(_, _, _)
\* DrainPending without the test for two lists
DrainPendingForced(tr, last, pend) ==
    IF pend # <<>>
      THEN LET r == apply_merge_op(Head(pend), tr, last)
           IN DrainPendingForced(r.tr, r.last, Tail(pend))
      ELSE Snapshot(tr, last, pend)

\* DrainPending that discards the operators it cannot apply
DrainPendingDropping(tr, last, pend) == Snapshot(tr, last, <<>>)

RECURSIVE DrainPending(_, _, _)
\* the loop before a count and at the end of the plan: it stops at a head
\* operator that lacks two lists
DrainPending(tr, last, pend) ==
    IF pend # <<>> /\ ~(Head(pend) \in Binary /\ Len(tr) < 2)
      THEN LET r == apply_merge_op(Head(pend), tr, last)
           IN DrainPending(r.tr, r.last, Tail(pend))
      ELSE Snapshot(tr, last, pend)

\* ImmediateMerge with difference taken of the two newest lists
ImmediateMergeNewest(op, tr) ==
    CASE op = "intersect" -> merge_intersect(tr)
      [] op = "union" -> merge_union(tr)
      [] op = "difference" -> merge_difference(tr[Len(tr) - 1], tr[Len(tr)])

\* the merged list of a binary merge step that finds two lists or more
ImmediateMerge(op, tr) ==
    CASE op = "intersect" -> merge_intersect(tr)
      [] op = "union" -> merge_union(tr)
      [] op = "difference" -> merge_difference(tr[1], tr[2])

\* BinaryMerge that applies the operator however many lists there are
BinaryMergeEager(op, tr, last, pend) ==
    LET r == apply_merge_op(op, tr, last) IN Snapshot(r.tr, r.last, pend)

\* a binary merge step: deferred with fewer than two lists, applied otherwise
BinaryMerge(op, tr, last, pend) ==
    IF Len(tr) < 2
      THEN Snapshot(tr, last, Append(pend, op))
      ELSE LET m == ImmediateMerge(op, tr) IN Snapshot(<<m>>, LastList(m), pend)

\* CountOf that takes the oldest list
CountOfFirst(last, tr) ==
    IF tr # <<>> THEN Len(tr[1]) ELSE 0

\* CountOf that gives 0 whenever context_last is no list
CountOfListOnly(last, tr) ==
    IF last.t = "list" THEN Len(last.l) ELSE 0

\* the integer a count step assigns to context_last
CountOf(last, tr) ==
    IF last.t = "list" THEN Len(last.l)
    ELSE IF tr # <<>> THEN Len(tr[Len(tr)])
    ELSE 0

\* the variables take the values of snapshot v
Becomes(v) ==
    /\ tool_results' = v.tool_results
    /\ context_last' = v.context_last
    /\ pending_merges' = v.pending_merges

\* the next step of the plan begins
Begin(st) ==
    /\ phase = "run"
    /\ Len(steps) < MaxSteps
    /\ steps' = Append(steps, st)
    /\ before' = Snapshot(tool_results, context_last, pending_merges)
    /\ UNCHANGED planRest

\* a tool step whose call returns the list with the ids `ids`
ToolStep(ids) ==
    /\ Begin(Step("tool", "", ids))
    /\ LET res == Recs(ids, Len(steps) + 1) IN
         Becomes(DrainAfterTool(Append(tool_results, res), LastList(res), pending_merges))
    /\ UNCHANGED phase

\* ToolStepFails that takes the result for an empty list and goes on
ToolStepFailsTolerated ==
    /\ Begin(Step("tool", "fail", <<>>))
    /\ Becomes(Snapshot(Append(tool_results, <<>>), LastList(<<>>), pending_merges))
    /\ UNCHANGED phase

\* a tool step whose call raises, or returns something that is no list
ToolStepFails ==
    /\ Begin(Step("tool", "fail", <<>>))
    /\ phase' = "error"
    /\ UNCHANGED <<tool_results, context_last, pending_merges>>

\* a merge step with a binary operator
MergeStep(op) ==
    /\ op \in Binary
    /\ Begin(Step("merge", op, <<>>))
    /\ Becomes(BinaryMerge(op, tool_results, context_last, pending_merges))
    /\ UNCHANGED phase

\* a count step
CountStep ==
    /\ Begin(Step("merge", "count", <<>>))
    /\ LET d == DrainPending(tool_results, context_last, pending_merges) IN
         Becomes(Snapshot(d.tool_results,
                          LastInt(CountOf(d.context_last, d.tool_results)),
                          d.pending_merges))
    /\ UNCHANGED phase

\* a merge step with an operator that is none of the four
UnknownMergeStep ==
    /\ Begin(Step("merge", "unknown", <<>>))
    /\ phase' = "error"
    /\ UNCHANGED <<tool_results, context_last, pending_merges>>

\* a step with neither a "tool" nor a "merge" member: the loop passes over it
OtherStep ==
    /\ Begin(Step("other", "", <<>>))
    /\ UNCHANGED <<phase, tool_results, context_last, pending_merges>>

\* the plan has no more steps: the last drain, and execute returns
\* {"final": context_last}
Finish ==
    /\ phase = "run"
    /\ phase' = "done"
    /\ before' = Snapshot(tool_results, context_last, pending_merges)
    /\ Becomes(DrainPending(tool_results, context_last, pending_merges))
    /\ UNCHANGED steps
    /\ UNCHANGED planRest

\* what execute gives back: the returned dict, or nothing when it raised or
\* has not returned
NoOutput == [raised |-> phase = "error"]
Output == IF phase = "done" THEN [final |-> context_last] ELSE NoOutput

PlanNext ==
    \/ \E ids \in ToolIdLists : ToolStep(ids)
    \/ ToolStepFails
    \/ \E op \in Binary : MergeStep(op)
    \/ CountStep
    \/ UnknownMergeStep
    \/ OtherStep
    \/ Finish

SpecPlan == Init /\ [][PlanNext]_vars

\* ====================================================================
\* PlanExecutor.execute, one action per await and per loop iteration.
\* phase is the place execute is at: "run" (the for loop takes the next
\* step), "await" (call_tool is awaited), "drain_tool", "drain_count",
\* "drain_end" (the while loops over pending_merges), "done", "error".
\* ====================================================================
\* the ids of the lists a tool call returns here
ExecuteIdLists == {<<>>, <<1, 2>>, <<2, 3>>}

Call(step, state) == [step |-> step, state |-> state]

\* the state of the latest call becomes st
CallEnds(st) == calls' = [calls EXCEPT ![Len(calls)].state = st]

\* a tool step begins: execute calls self.mcp.call_tool and awaits it
CallTool ==
    /\ phase = "run"
    /\ Len(steps) < MaxSteps
    /\ steps' = Append(steps, Step("tool", "", <<>>))
    /\ before' = Snapshot(tool_results, context_last, pending_merges)
    /\ calls' = Append(calls, Call(Len(steps) + 1, "sent"))
    /\ phase' = "await"
    /\ UNCHANGED <<tool_results, context_last, pending_merges>>
    /\ UNCHANGED executeRest

\* the awaited call returns the list with the ids `ids`: it is appended and
\* becomes context_last
CallReturns(ids) ==
    /\ phase = "await"
    /\ steps' = [steps EXCEPT ![Len(steps)].ids = ids]
    /\ LET res == Recs(ids, Len(steps)) IN
         /\ tool_results' = Append(tool_results, res)
         /\ context_last' = LastList(res)
    /\ CallEnds("returned")
    /\ phase' = "drain_tool"
    /\ UNCHANGED <<pending_merges, before>>
    /\ UNCHANGED executeRest

\* CallFails with the failure passed over: the for loop goes on
CallFailsContinues ==
    /\ phase = "await"
    /\ steps' = [steps EXCEPT ![Len(steps)].op = "fail"]
    /\ CallEnds("failed")
    /\ phase' = "run"
    /\ UNCHANGED <<tool_results, context_last, pending_merges, before>>
    /\ UNCHANGED executeRest

\* the awaited call raises, or returns something that is no list: execute
\* raises
CallFails ==
    /\ phase = "await"
    /\ steps' = [steps EXCEPT ![Len(steps)].op = "fail"]
    /\ CallEnds("failed")
    /\ phase' = "error"
    /\ UNCHANGED <<tool_results, context_last, pending_merges, before>>
    /\ UNCHANGED executeRest

\* the head of pending_merges is popped and applied
PopAndApply ==
    LET r == apply_merge_op(Head(pending_merges), tool_results, context_last) IN
    /\ tool_results' = r.tr
    /\ context_last' = r.last
    /\ pending_merges' = Tail(pending_merges)

\* ToolDrain whose iteration leaves applied_any true when nothing was applied
ToolDrainSpinning ==
    /\ phase = "drain_tool"
    /\ IF pending_merges # <<>> /\ Len(tool_results) >= 2
         THEN PopAndApply /\ UNCHANGED phase
         ELSE IF pending_merges # <<>>
           THEN UNCHANGED <<tool_results, context_last, pending_merges, phase>>
           ELSE phase' = "run" /\ UNCHANGED <<tool_results, context_last, pending_merges>>
    /\ UNCHANGED <<steps, before, calls>>
    /\ UNCHANGED executeRest

\* one test of "while pending_merges and applied_any" after a tool result,
\* with the iteration it admits: the head operator is popped and applied
\* when two lists are there; else applied_any stays false and the loop ends
ToolDrain ==
    /\ phase = "drain_tool"
    /\ IF pending_merges # <<>> /\ Len(tool_results) >= 2
         THEN PopAndApply /\ UNCHANGED phase
         ELSE phase' = "run" /\ UNCHANGED <<tool_results, context_last, pending_merges>>
    /\ UNCHANGED <<steps, before, calls>>
    /\ UNCHANGED executeRest

\* the head operator lacks its two lists: the loops before a count and at
\* the end of the plan break here
CannotApply == Head(pending_merges) \in Binary /\ Len(tool_results) < 2

\* a count step begins
CountBegin ==
    /\ Begin(Step("merge", "count", <<>>))
    /\ phase' = "drain_count"
    /\ UNCHANGED <<tool_results, context_last, pending_merges>>

\* one test of "while pending_merges" before the count, with the iteration
\* it admits; when the loop is left the count is assigned to context_last
CountDrain ==
    /\ phase = "drain_count"
    /\ IF pending_merges # <<>> /\ ~CannotApply
         THEN PopAndApply /\ UNCHANGED phase
         ELSE /\ context_last' = LastInt(CountOf(context_last, tool_results))
              /\ phase' = "run"
              /\ UNCHANGED <<tool_results, pending_merges>>
    /\ UNCHANGED <<steps, before, calls>>
    /\ UNCHANGED executeRest

\* the for loop has no more steps
EndOfPlan ==
    /\ phase = "run"
    /\ phase' = "drain_end"
    /\ before' = Snapshot(tool_results, context_last, pending_merges)
    /\ UNCHANGED <<steps, tool_results, context_last, pending_merges, calls>>
    /\ UNCHANGED executeRest

\* one test of "while pending_merges" at the end of the plan, with the
\* iteration it admits; when the loop is left execute returns
EndDrain ==
    /\ phase = "drain_end"
    /\ IF pending_merges # <<>> /\ ~CannotApply
         THEN PopAndApply /\ UNCHANGED phase
         ELSE phase' = "done" /\ UNCHANGED <<tool_results, context_last, pending_merges>>
    /\ UNCHANGED <<steps, before, calls>>
    /\ UNCHANGED executeRest

ExecuteNext ==
    \/ CallTool
    \/ \E ids \in ExecuteIdLists : CallReturns(ids)
    \/ CallFails
    \/ ToolDrain
    \/ \E op \in Binary : MergeStep(op)
    \/ CountBegin
    \/ CountDrain
    \/ UnknownMergeStep
    \/ OtherStep
    \/ EndOfPlan
    \/ EndDrain

SpecExecute == Init /\ [][ExecuteNext]_vars

\* execute is one coroutine that the event loop keeps running, and every
\* awaited call_tool returns or fails
SpecExecuteFair == SpecExecute /\ WF_vars(ExecuteNext)

\* ====================================================================
\* ToolRegistry.normalize_method_spec
\* ====================================================================
\* the fields of one raw descriptor
MaxFields == 3

\* the field names tried: recognized ones and others
FieldNames == {"type", "params", "func", "description", "target", "extra"}
\* the field values: lists (the empty list is what params defaults to)
FieldValues == {<<>>, <<"v">>}

\* the dicts with at most n fields
Dicts(n) ==
    {d \in UNION {[1..k -> FieldNames \X FieldValues] : k \in 0..n} :
        \A i, j \in 1..Len(d) : i # j => d[i][1] # d[j][1]}

\* the arguments normalize_method_spec is called with
RawInputs ==
    {Raw("dict", d, <<>>) : d \in Dicts(MaxFields)}
        \cup {Raw("str", EmptyDict, <<"text">>), RawOther}

allowed ==
    {"type", "func", "params", "schema", "serializer",
     "method", "endpoint", "timeout", "path", "description", "id_param"}

\* normalize_method_spec that copies every field
normalize_method_spec_copy(r) ==
    IF r.kind # "dict"
      THEN IF r.kind = "str" THEN <<<<"description", r.text>>>> ELSE EmptyDict
      ELSE IF "params" \in Keys(r.fields) THEN r.fields
           ELSE Append(r.fields, <<"params", <<>>>>)

normalize_method_spec(r) ==
    IF r.kind # "dict"
      THEN IF r.kind = "str" THEN <<<<"description", r.text>>>> ELSE EmptyDict
      ELSE LET out == SelectSeq(r.fields, LAMBDA kv : kv[1] \in allowed) IN
             IF "params" \notin Keys(out)
               THEN Append(out, <<"params",
                                  IF "params" \in Keys(r.fields)
                                    THEN DictGet(r.fields, "params") ELSE <<>>>>)
               ELSE out

NormalizeInputs ==
    /\ raw \in RawInputs
    /\ safe_spec = NotNormalized

Normalize ==
    /\ safe_spec = NotNormalized
    /\ safe_spec' = normalize_method_spec(raw)
    /\ UNCHANGED raw
    /\ UNCHANGED normalizeRest

InitNormalize == InitOthers /\ ScriptIdle /\ NormalizeInputs

SpecNormalize == InitNormalize /\ [][Normalize]_vars

\* ====================================================================
\* ToolRegistry._build
\* ====================================================================
\* the groups of the tools section, the entries of one group
MaxGroups == 2
MaxMethods == 2

\* a name is the sequence of its dot-separated segments, so that joining two
\* names with a dot is concatenation
GroupNames == {<<"g">>, <<"g", "h">>}
MethodNames == {<<"m">>, <<"h", "m">>, <<"description">>, <<"h", "description">>}

\* the values of the entries tried: a descriptor dict and a text
EntryValues ==
    {Raw("dict", <<<<"type", <<"script">>>>, <<"extra", <<"x">>>>>>, <<>>),
     Raw("str", EmptyDict, <<"text">>)}

Group(name, isdict, entries) == [name |-> name, isdict |-> isdict, entries |-> entries]
Entry(name, value) == [name |-> name, value |-> value]

\* f"{tool_name}.{method_name}"
fullname(tool_name, method_name) == tool_name \o method_name

RECURSIVE BuildGroup(_, _, _)
\* the inner loop of _build over the entries of one group
BuildGroup(entries, tool_name, d) ==
    IF entries = <<>> THEN d
    ELSE LET e == Head(entries) IN
           BuildGroup(Tail(entries), tool_name,
                      IF e.name = <<"description">> THEN d
                      ELSE DictSet(d, fullname(tool_name, e.name),
                                   normalize_method_spec(e.value)))

RECURSIVE BuildAll(_, _)
\* the outer loop of _build over the groups; a group that is no dict is skipped
BuildAll(groups, d) ==
    IF groups = <<>> THEN d
    ELSE LET g == Head(groups) IN
           BuildAll(Tail(groups),
                    IF g.isdict THEN BuildGroup(g.entries, g.name, d) ELSE d)

\* the spec gets one more group
AddGroup(name, isdict) ==
    /\ tools = NotBuilt
    /\ Len(tools_section) < MaxGroups
    /\ \A k \in 1..Len(tools_section) : tools_section[k].name # name
    /\ tools_section' = Append(tools_section, Group(name, isdict, <<>>))
    /\ UNCHANGED tools
    /\ UNCHANGED registryRest

\* the newest group, a dict, gets one more entry
AddEntry(name, value) ==
    /\ tools = NotBuilt
    /\ tools_section # <<>>
    /\ LET k == Len(tools_section)
           g == tools_section[k]
       IN /\ g.isdict
          /\ Len(g.entries) < MaxMethods
          /\ \A n \in 1..Len(g.entries) : g.entries[n].name # name
          /\ tools_section' =
                [tools_section EXCEPT ![k].entries = Append(@, Entry(name, value))]
    /\ UNCHANGED tools
    /\ UNCHANGED registryRest

\* ToolRegistry(spec): _build fills self.tools
Build ==
    /\ tools = NotBuilt
    /\ tools' = BuildAll(tools_section, EmptyDict)
    /\ UNCHANGED tools_section
    /\ UNCHANGED registryRest

RegistryNext ==
    \/ \E name \in GroupNames, isdict \in BOOLEAN : AddGroup(name, isdict)
    \/ \E name \in MethodNames, value \in EntryValues : AddEntry(name, value)
    \/ Build

SpecRegistry == Init /\ [][RegistryNext]_vars

\* ====================================================================
\* ws_api.websocket_handler: the students methods
\* ====================================================================
\* the requests of one connection, the ids the table gives out
MaxRequests == 3
MaxStudentId == 2
MaxWsId == 2
StudentIds == 1..MaxStudentId

\* a reply with the request it answers: method and student_id (NoStudentId
\* when the request has none), whether that row existed, and what was sent:
\* kind "result" or "error", body "row", "ok_true", "ok_false", "list",
\* "message"
NoStudentId == 0
WsReply(method, sid, existed, kind, body) ==
    [method |-> method, sid |-> sid, existed |-> existed, kind |-> kind, body |-> body]

\* the ids of the requests
WsIds == 1..MaxWsId

\* a frame that is a JSON object with some id is read; the reply is sent with
\* msg_id, or by the except clause with message.get("id"), which is the same
\* id; and the request is over
Answer(r) ==
    /\ wsstate = "open"
    /\ Len(wsreplies) < MaxRequests
    /\ wsreplies' = Append(wsreplies, r)
    /\ \E i \in WsIds :
          /\ message' = MessageObject(i)
          /\ wsids' = Append(wsids, [frame |-> i, id |-> i])
    /\ UNCHANGED wsstate
    /\ UNCHANGED crudRest

\* the id SQLite gives the next row: one more than the largest there is
NextStudentId ==
    IF students = {} THEN 1
    ELSE 1 + CHOOSE i \in students : \A j \in students : j <= i

\* students.create with valid params
StudentsCreate ==
    /\ NextStudentId \in StudentIds
    /\ students' = students \cup {NextStudentId}
    /\ Answer(WsReply("students.create", NextStudentId, FALSE, "result", "row"))

\* students.create that raises (validation, or the unique email exists)
StudentsCreateRaises ==
    /\ UNCHANGED students
    /\ Answer(WsReply("students.create", NoStudentId, FALSE, "error", "message"))

\* students.get and students.update
StudentsGetOrUpdate(method, sid) ==
    /\ UNCHANGED students
    /\ Answer(IF sid \in students
                THEN WsReply(method, sid, TRUE, "result", "row")
                ELSE WsReply(method, sid, FALSE, "error", "message"))

\* students.delete: crud.delete_student gives True or False and the handler
\* sends {"ok": ok} as the result
StudentsDelete(sid) ==
    /\ students' = students \ {sid}
    /\ Answer(WsReply("students.delete", sid, sid \in students, "result",
                      IF sid \in students THEN "ok_true" ELSE "ok_false"))

\* a students method that needs student_id, without it: KeyError, answered
\* by the handler's except clause
StudentIdMissing(method) ==
    /\ UNCHANGED students
    /\ Answer(WsReply(method, NoStudentId, FALSE, "error", "message"))

\* students.list
StudentsList ==
    /\ UNCHANGED students
    /\ Answer(WsReply("students.list", NoStudentId, FALSE, "result", "list"))

\* a method the handler does not know
UnknownWsMethod ==
    /\ UNCHANGED students
    /\ Answer(WsReply("unknown", NoStudentId, FALSE, "error", "message"))

\* a frame that is no JSON: json.loads raises and leaves `message` as it
\* was; the except clause evaluates message.get("id"). With `message` not
\* bound yet that raises UnboundLocalError out of the handler; else the
\* reply carries the id of the frame parsed last.
UnparseableFrame ==
    /\ wsstate = "open"
    /\ Len(wsreplies) < MaxRequests
    /\ IF message.kind = "unbound"
         THEN /\ wsstate' = "UnboundLocalError"
              /\ UNCHANGED <<wsreplies, wsids>>
         ELSE /\ wsreplies' = Append(wsreplies,
                     WsReply("unparseable", NoStudentId, FALSE, "error", "message"))
              /\ wsids' = Append(wsids, [frame |-> NoWsId, id |-> message.id])
              /\ UNCHANGED wsstate
    /\ UNCHANGED <<students, message>>
    /\ UNCHANGED crudRest

\* a frame that is JSON but no object: message.get raises AttributeError in
\* the try block and again in the except clause, out of the handler
NonObjectFrame ==
    /\ wsstate = "open"
    /\ Len(wsreplies) < MaxRequests
    /\ message' = MessageOther
    /\ wsstate' = "AttributeError"
    /\ UNCHANGED <<students, wsreplies, wsids>>
    /\ UNCHANGED crudRest

CrudNext ==
    \/ UnparseableFrame
    \/ NonObjectFrame
    \/ StudentsCreate
    \/ StudentsCreateRaises
    \/ \E m \in {"students.get", "students.update"}, sid \in StudentIds :
          StudentsGetOrUpdate(m, sid)
    \/ \E sid \in StudentIds : StudentsDelete(sid)
    \/ \E m \in {"students.get", "students.update", "students.delete"} :
          StudentIdMissing(m)
    \/ StudentsList
    \/ UnknownWsMethod

SpecCrud == Init /\ [][CrudNext]_vars

\* ------------------------------------------------------ claims: MCPClient
\* connect() invocations that have completed
ConnectsRun == Cardinality({k \in LinkIds : rstate[k] # "none"})

\* C2: a call returns r (or raises the error e of a reply) only if the
\* receiver completed its future while handling a frame that carries the
\* call's own id together with r (or e); no frame completes the future of
\* another call.
OwnResponseOnly ==
    \A i \in CallIds :
        /\ fut[i].st \in {"result", "exception"} =>
              /\ src[i].kind = "object" /\ src[i].idk = "call" /\ src[i].id = i
              /\ fut[i].st = "result" => src[i].key = "result" /\ src[i].val = fut[i].val
              /\ fut[i].st = "exception" =>
                    /\ src[i].key # "result"
                    /\ fut[i].val = (IF src[i].key = "error" THEN src[i].val ELSE "None")
        /\ cout[i].kind = "returned" => fut[i] = [st |-> "result", val |-> cout[i].val]
        /\ cout[i].kind = "raised" => fut[i] = [st |-> "exception", val |-> cout[i].val]

\* C2 witness: two calls were in flight together and the reply to call 2
\* arrived first: it has returned its own value while call 1 still waits
OutOfOrderReply ==
    /\ cout[2] = [kind |-> "returned", val |-> "r2"]
    /\ cpc[1] = "waiting" /\ fut[1].st = "pending" /\ 1 \in pending

\* C3: once _rpc has completed (result, error reply or timeout) its id has no
\* entry in the pending table, and no entry is removed twice.
PendingRemovedOnCompletion ==
    \A i \in CallIds :
        /\ cout[i].kind \in {"returned", "raised", "timeout"} => i \notin pending
        /\ removed[i] <= 1

\* C4: a response that arrives for a call that has timed out is discarded
\* and the reader keeps running: no receiver is ended by the exception that
\* completing an already cancelled future raises.
LateResponseDiscarded ==
    \A k \in LinkIds : rerr[k] # "InvalidStateError"

\* C5: a frame whose id matches no pending entry is discarded and the reader
\* goes on: no receiver is ended by testing an id against the table
\* (TypeError, the id is a JSON array or object).
UnmatchedFrameDiscarded ==
    \A k \in LinkIds : rerr[k] # "TypeError"

\* C6: when the link has closed and the reader has noticed it, every call
\* that is still waiting for its reply has its future failed and its entry
\* removed from the pending table.
ClosureFailsPending ==
    \A k \in LinkIds :
        (rstate[k] = "exited" /\ rerr[k] = "ConnectionClosed"
            /\ \A l \in LinkIds : ~linkOpen[l]) =>
            \A i \in CallIds :
                cpc[i] = "waiting" => fut[i].st = "exception" /\ i \notin pending

\* C7: at most one link is open, and when a caller has observed a closed
\* link exactly one reconnect has run after the first connect.
SingleReconnect ==
    /\ Cardinality({l \in LinkIds : linkOpen[l]}) <= 1
    /\ (\E i \in CallIds : cout[i] = [kind |-> "sendfail", val |-> "ConnectionClosed"])
          => ConnectsRun = 2

\* ------------------------------------------------------ claims: ws_handler
\* the replies sent while frame k was being handled
RepliesFor(k) == {j \in 1..Len(sent) : sent[j].for = k}

\* frame k has been handled to the end (the loop went back to read a frame)
Handled(k) ==
    \/ k < Len(recv)
    \/ k = Len(recv) /\ (spc = "read" \/ (spc = "closed" /\ endedBy = "disconnect"))

IsCallTool(f) == f.shape = "object" /\ f.method = "call_tool"

\* the transport, and no exception, ended the loop
EndedByTransport == spc = "closed" => endedBy \in {"disconnect", "send_failed"}

\* C1: every call_tool frame that has been handled has exactly one reply,
\* and a reply to a call_tool frame carries the id of that frame, whatever
\* the tool named and however its execution ended.
RepliesCorrelated ==
    \A k \in 1..Len(recv) :
        IsCallTool(recv[k]) =>
            /\ Handled(k) => Cardinality(RepliesFor(k)) = 1
            /\ Cardinality(RepliesFor(k)) <= 1
            /\ \A j \in RepliesFor(k) : sent[j].id = recv[k].id

\* C1 witness: two call_tool frames with different ids, one dispatched tool
\* succeeded and one failed, and both are answered
TwoCallsAnswered ==
    /\ Len(recv) = 2 /\ spc = "read"
    /\ IsCallTool(recv[1]) /\ IsCallTool(recv[2])
    /\ recv[1].id = 1 /\ recv[2].id = 2
    /\ Len(sent) = 2
    /\ sent[1] = [for |-> 1, id |-> 1, kind |-> "error", code |-> ServerErrorCode]
    /\ sent[2] = [for |-> 2, id |-> 2, kind |-> "result", code |-> 0]
    /\ Len(execd) = 2

\* C8: no frame ends the session (only the transport does), and every frame
\* that was handled has a reply.
SessionSurvivesEveryFrame ==
    /\ EndedByTransport
    /\ \A k \in 1..Len(recv) :
          (k < Len(recv) \/ spc # "exec") /\ endedBy # "send_failed"
              => RepliesFor(k) # {}

\* C9: a frame that is not JSON has exactly one reply, the parse error with a
\* null id, and it does not end the session.
ParseErrorAnswered ==
    \A k \in 1..Len(recv) :
        recv[k].shape = "badjson" =>
            /\ Cardinality(RepliesFor(k)) = 1
            /\ \A j \in RepliesFor(k) :
                  /\ sent[j].id = NullId
                  /\ sent[j].kind = "error"
                  /\ sent[j].code = ParseErrorCode
            /\ k = Len(recv) => (spc = "read" \/ (spc = "closed" /\ endedBy = "disconnect"))

\* C9 witness: a frame that is not JSON was answered and the next frame of
\* the session, a list_tools request, got its result
FrameAfterParseError ==
    /\ Len(recv) = 2
    /\ recv[1].shape = "badjson"
    /\ recv[2].shape = "object" /\ recv[2].method = "list_tools" /\ recv[2].id = 1
    /\ sent = <<[for |-> 1, id |-> NullId, kind |-> "error", code |-> ParseErrorCode],
                [for |-> 2, id |-> 1, kind |-> "result", code |-> 0]>>

\* the execute_tool calls that failed and whose reply could be sent
FailedExecs ==
    {n \in 1..Len(execd) :
        execd[n][2] # "ok" /\ ~(execd[n][1] = Len(recv) /\ endedBy = "send_failed")}

\* C10: a call_tool whose execute_tool failed has exactly one reply, an error
\* with the request's id and the execution-error code, and the failure does
\* not end the session.
ExecFailureAnswered ==
    \A n \in FailedExecs :
        LET k == execd[n][1] IN
            /\ Cardinality(RepliesFor(k)) = 1
            /\ \A j \in RepliesFor(k) :
                  sent[j] = [for |-> k, id |-> recv[k].id, kind |-> "error",
                             code |-> ServerErrorCode]
            /\ k = Len(recv) => (spc = "read" \/ (spc = "closed" /\ endedBy = "disconnect"))

\* C10 witness: a subprocess tool timed out, the error was sent, and the next
\* call_tool of the session was dispatched and answered with its result
CallAfterExecFailure ==
    /\ Len(recv) = 2 /\ Len(execd) = 2
    /\ recv[1].name = "g.script" /\ execd[1] = <<1, "TimeoutExpired">>
    /\ recv[2].name = "g.api" /\ execd[2] = <<2, "ok">>
    /\ sent = <<[for |-> 1, id |-> recv[1].id, kind |-> "error", code |-> ServerErrorCode],
                [for |-> 2, id |-> recv[2].id, kind |-> "result", code |-> 0]>>

\* the frames that name a tool the registry does not have
NamesUnknownTool(f) ==
    /\ f.shape = "object" /\ f.method \in {"tool_info", "call_tool"}
    /\ f.params = "object" /\ f.name = "unknown"

\* C11: tool_info or call_tool naming a tool that is not in the registry has
\* exactly one reply, the not-found error with the request's id, and no
\* execution strategy runs for it (no execute_tool call, no side effect).
UnknownToolNotFound ==
    \A k \in 1..Len(recv) :
        NamesUnknownTool(recv[k]) =>
            /\ Cardinality(RepliesFor(k)) = 1
            /\ \A j \in RepliesFor(k) :
                  sent[j] = [for |-> k, id |-> recv[k].id, kind |-> "error",
                             code |-> MethodNotFoundCode]
            /\ \A n \in 1..Len(execd) : execd[n][1] # k
            /\ \A e \in effects : e[1] # k

\* C11 witness: a call_tool for an unknown tool was answered, after a
\* call_tool for a known tool that did run its strategy
UnknownAfterKnownCall ==
    /\ Len(recv) = 2
    /\ IsCallTool(recv[1]) /\ recv[1].name = "g.script"
    /\ IsCallTool(recv[2]) /\ NamesUnknownTool(recv[2]) /\ recv[2].id = 2
    /\ effects = {<<1, "subprocess">>}
    /\ Len(sent) = 2 /\ sent[2].code = MethodNotFoundCode

\* the types execute_tool has a strategy for (an absent type is taken as
\* python_function)
KnownTypes == {"python_function", "absent", "external_api", "script"}

\* C12: an execute_tool call for a descriptor whose type is not a recognized
\* strategy ends with an error and has had no side effect.
UnknownTypeRejected ==
    \A n \in 1..Len(execd) :
        LET k == execd[n][1] IN
            ToolType[recv[k].name] \notin KnownTypes =>
                /\ execd[n][2] = "ValueError"
                /\ \A e \in effects : e[1] # k
                /\ \A j \in RepliesFor(k) : sent[j].kind = "error"

\* C12 witness: a descriptor of an unrecognized type was dispatched and
\* answered with the error
OddTypeDispatched ==
    /\ Len(recv) = 1 /\ recv[1].name = "g.odd" /\ IsCallTool(recv[1])
    /\ execd = <<<<1, "ValueError">>>>
    /\ Len(sent) = 1 /\ sent[1].code = ServerErrorCode
    /\ spc = "read"

\* ---------------------------------------------------------------- C13
\* C13: while a tool started by one session is still running, a frame that
\* has arrived on another session can be read, dispatched and answered.
OtherSessionsProgress ==
    \A s, t \in Sessions :
        (s # t /\ lpc[s] \in Running /\ lpc[t] = "read" /\ inbox[t] # <<>>)
            => ENABLED ReadAndDispatch(t)

\* ---------------------------------------------------------------- C14
\* t occurs in msg as a contiguous piece
Contains(msg, t) ==
    \E i \in 0..(Len(msg) - Len(t)) : SubSeq(msg, i + 1, i + Len(t)) = t

\* execute_script has returned or raised for a child that exited
ScriptExited == sresult.kind \notin {"notrun", "TimeoutExpired"}

\* C14 as stated: a nonzero exit gives an execution error whose message
\* contains the captured stderr text; a zero exit gives the stdout parsed as
\* JSON, or the raw trimmed stdout text when it is not valid JSON.
ScriptResultAsStated ==
    ScriptExited =>
        /\ returncode # 0 =>
              sresult.kind = "RuntimeError" /\ Contains(sresult.text, strip(stderr))
        /\ returncode = 0 =>
              IF JsonValid(strip(stdout))
                THEN sresult = SResult("json", JsonNumber(strip(stdout)), <<>>)
                ELSE sresult = SResult("text", 0, strip(stdout))

\* C14 amended: a nonzero exit gives an execution error whose message is
\* "script failed: " followed by the trimmed stderr text; a zero exit gives
\* None when the trimmed stdout is empty, otherwise the trimmed stdout parsed
\* as JSON, or the raw trimmed stdout text when it is not valid JSON.
ScriptResultAmended ==
    ScriptExited =>
        /\ returncode # 0 =>
              sresult = SResult("RuntimeError", 0, ScriptFailed \o strip(stderr))
        /\ returncode = 0 =>
              IF strip(stdout) = <<>> THEN sresult.kind = "none"
              ELSE IF JsonValid(strip(stdout))
                THEN sresult = SResult("json", JsonNumber(strip(stdout)), <<>>)
                ELSE sresult = SResult("text", 0, strip(stdout))

\* C14 witness: a zero exit whose stdout is only whitespace has returned None
WhitespaceStdoutGivesNone ==
    /\ returncode = 0 /\ stdout = <<" ", " ">>
    /\ sresult.kind = "none"

\* ---------------------------------------------------------------- C17
\* the ids of the records of a list, and of the records in a result
IdsOf(lst) == {lst[p].id : p \in {q \in 1..Len(lst) : HasId(lst[q])}}

\* every id occurs at most once in lst
OnePerId(lst) == \A p, q \in 1..Len(lst) : p # q => lst[p].id # lst[q].id

\* r is the latest record of lst with its id
LatestIn(r, lst) ==
    /\ \E p \in 1..Len(lst) : lst[p] = r
    /\ \A p \in 1..Len(lst) : lst[p].id = r.id => lst[p].pos <= r.pos

\* the two lists of the worked examples
ExampleLists == <<Recs(<<1, 2, 3>>, 1), Recs(<<2, 3, 4>>, 2)>>

\* C17: merge_intersect of k >= 2 lists returns exactly the records of the
\* first list whose id is in every other list, one record per id, the later
\* occurrence for an id duplicated in the first list; ids {1,2,3} and
\* {2,3,4} give ids {2,3}.
IntersectKeepsCommonIds ==
    /\ (merged.fn = "intersect" /\ Len(msets) >= 2) =>
          /\ IdsOf(merged.val) =
                {i \in IdsOf(msets[1]) : \A k \in 2..Len(msets) : i \in IdsOf(msets[k])}
          /\ OnePerId(merged.val)
          /\ \A n \in 1..Len(merged.val) :
                HasId(merged.val[n]) /\ LatestIn(merged.val[n], msets[1])
    /\ IdsOf(merge_intersect(ExampleLists)) = {2, 3}
    /\ Len(merge_intersect(ExampleLists)) = 2

\* C17 witness: three lists were intersected; the first holds an id twice
\* and an id that the third list lacks, and the later duplicate is the result
IntersectOfThree ==
    /\ merged.fn = "intersect" /\ Len(msets) = 3
    /\ msets[1] = Recs(<<1, 1>>, 1)
    /\ msets[2] = Recs(<<1>>, 2) /\ msets[3] = Recs(<<1>>, 3)
    /\ merged.val = <<Rec(1, 1, 2)>>

\* ---------------------------------------------------------------- C18
\* r is the latest record with its id in the lists, in list order
LatestOfAll(r, lists) ==
    /\ \E k \in 1..Len(lists) : \E p \in 1..Len(lists[k]) : lists[k][p] = r
    /\ \A k \in 1..Len(lists) : \A p \in 1..Len(lists[k]) :
          lists[k][p].id = r.id =>
              (k < r.list \/ (k = r.list /\ p <= r.pos))

\* C18: merge_union returns one record per distinct id that occurs in any of
\* the lists, each id once, the record kept being the one that occurs last
\* in list order; ids {1,2,3} and {2,3,4} give ids {1,2,3,4}.
UnionKeepsLastPerId ==
    /\ merged.fn = "union" =>
          /\ IdsOf(merged.val) = UNION {IdsOf(msets[k]) : k \in 1..Len(msets)}
          /\ OnePerId(merged.val)
          /\ \A n \in 1..Len(merged.val) :
                HasId(merged.val[n]) /\ LatestOfAll(merged.val[n], msets)
    /\ IdsOf(merge_union(ExampleLists)) = {1, 2, 3, 4}
    /\ Len(merge_union(ExampleLists)) = 4

\* C18 witness: two lists that share an id were united; the record of the
\* second list replaced the one of the first, in the first one's place
UnionOverwrites ==
    /\ merged.fn = "union" /\ Len(msets) = 2
    /\ msets[1] = Recs(<<1, 2>>, 1) /\ msets[2] = Recs(<<1>>, 2)
    /\ merged.val = <<Rec(1, 2, 1), Rec(2, 1, 2)>>

\* ---------------------------------------------------------------- C15
\* the latest step of the plan, while execute has not returned; `before` is
\* then the state in which that step began
LatestStep == steps[Len(steps)]
InStep == steps # <<>> /\ phase # "done"

\* C15: a binary merge step reached with fewer than two lists never raises;
\* the operator goes to the tail of pending_merges, and tool_results and
\* context_last stay as they were.
BinaryMergeDeferred ==
    (InStep /\ LatestStep.kind = "merge" /\ LatestStep.op \in Binary
        /\ Len(before.tool_results) < 2) =>
        /\ phase = "run"
        /\ pending_merges = Append(before.pending_merges, LatestStep.op)
        /\ tool_results = before.tool_results
        /\ context_last = before.context_last

\* C15 witness: a difference was deferred behind a union deferred earlier,
\* with one list there
TwoOperatorsDeferred ==
    /\ phase = "run" /\ Len(steps) = 3
    /\ steps[3] = Step("merge", "difference", <<>>)
    /\ pending_merges = <<"union", "difference">>
    /\ tool_results = <<Recs(<<1, 2, 3>>, 2)>>
    /\ context_last = LastList(Recs(<<1, 2, 3>>, 2))

\* ---------------------------------------------------------------- C16
\* C16: a plan of one tool step and one binary merge step returns, without
\* an error, the raw list of the tool call, the merge still deferred; in
\* general an operator still deferred at the end of the plan for want of two
\* lists is dropped without an error and context_last stays as it was.
DeferredDroppedAtEnd ==
    /\ (steps # <<>> /\ steps[1].kind = "tool" /\ steps[1].op # "fail"
          /\ Len(steps) >= 2 /\ steps[2].kind = "merge" /\ steps[2].op \in Binary) =>
          /\ Len(steps) = 2 => phase # "error" /\ pending_merges = <<steps[2].op>>
          /\ (Len(steps) = 2 /\ phase = "done") =>
                context_last = LastList(Recs(steps[1].ids, 1))
    /\ (phase = "done" /\ before.pending_merges # <<>>
          /\ Len(before.tool_results) < 2) =>
          /\ context_last = before.context_last
          /\ tool_results = before.tool_results

\* C16 witness: the plan [tool, union] has returned the tool's raw list
SingleToolThenMerge ==
    /\ phase = "done"
    /\ steps = <<Step("tool", "", <<1, 0, 1>>), Step("merge", "union", <<>>)>>
    /\ before.pending_merges = <<"union">>
    /\ context_last = LastList(Recs(<<1, 0, 1>>, 1))

\* ---------------------------------------------------------------- C19
\* C19: a difference step with two lists or more leaves the records of the
\* first list whose id is not in the second (one per id, as the lists are
\* keyed by id); the third and later lists have no influence and are gone
\* when tool_results collapses to the merged list.
DifferenceOfFirstTwo ==
    (InStep /\ LatestStep = Step("merge", "difference", <<>>)
        /\ Len(before.tool_results) >= 2) =>
        LET a == before.tool_results[1]
            b == before.tool_results[2]
        IN /\ phase = "run"
           /\ context_last.t = "list"
           /\ tool_results = <<context_last.l>>
           /\ IdsOf(context_last.l) = IdsOf(a) \ IdsOf(b)
           /\ OnePerId(context_last.l)
           /\ \A n \in 1..Len(context_last.l) :
                 HasId(context_last.l[n]) /\ LatestIn(context_last.l[n], a)

\* C19 witness: three lists had accumulated; ids 1 and 5 of the first are
\* not in the second, and id 1 stays although the third list has it
DifferenceWithThreeLists ==
    /\ phase = "run" /\ Len(steps) = 4
    /\ steps[4] = Step("merge", "difference", <<>>)
    /\ before.tool_results =
          <<Recs(<<1, 2, 3, 4, 5>>, 1), Recs(<<2, 3, 4>>, 2), Recs(<<1, 2, 3>>, 3)>>
    /\ tool_results = <<<<Rec(1, 1, 1), Rec(5, 1, 5)>>>>

\* ---------------------------------------------------------------- C20
\* C20: a count step sets context_last to an integer: the length of
\* context_last when that is a list; otherwise the length of the last
\* element of tool_results when there is one; otherwise 0. A plan of a tool
\* call returning 5 items followed by count has the final value 5.
CountGivesLength ==
    /\ (InStep /\ LatestStep = Step("merge", "count", <<>>)) =>
          /\ phase = "run"
          /\ context_last.t = "int"
          /\ context_last.n =
                IF before.context_last.t = "list" THEN Len(before.context_last.l)
                ELSE IF before.tool_results # <<>>
                  THEN Len(before.tool_results[Len(before.tool_results)])
                ELSE 0
    /\ (phase = "done"
          /\ steps = <<Step("tool", "", <<1, 2, 3, 4, 5>>), Step("merge", "count", <<>>)>>) =>
          context_last = LastInt(5)

\* C20 witness: a second count, of an integer context_last, has taken the
\* length of the five-item list again, and the plan has returned 5
CountedTwice ==
    /\ phase = "done"
    /\ steps = <<Step("tool", "", <<1, 2, 3, 4, 5>>), Step("merge", "count", <<>>),
                 Step("merge", "count", <<>>)>>
    /\ before.context_last = LastInt(5)
    /\ context_last = LastInt(5)

\* ---------------------------------------------------------------- C21
\* the step at position k failed: a tool call without a list, or an unknown
\* merge operator
Failed(k) == steps[k].op \in {"fail", "unknown"}

\* C21: a tool step whose call_tool result is no list aborts the plan with an
\* error: no final value is produced, tool_results and context_last are not
\* updated with that result, and no later step is executed.
NonListAborts ==
    \A k \in 1..Len(steps) :
        (steps[k].kind = "tool" /\ Failed(k)) =>
            /\ phase = "error"
            /\ "final" \notin DOMAIN Output
            /\ k = Len(steps)
            /\ tool_results = before.tool_results
            /\ context_last = before.context_last
            /\ pending_merges = before.pending_merges

\* C21 witness: the third step's call returned no list, after two lists had
\* been collected
AbortedAtThirdStep ==
    /\ phase = "error" /\ Len(steps) = 3
    /\ steps[3] = Step("tool", "fail", <<>>)
    /\ Len(tool_results) = 2
    /\ context_last = LastList(Recs(<<2, 3, 4>>, 2))

\* ---------------------------------------------------------------- C22
\* C22: the output of execute holds the final value and a trace with one
\* entry per executed step, in plan order.
OutputHasTrace ==
    phase = "done" =>
        /\ "final" \in DOMAIN Output
        /\ "trace" \in DOMAIN Output
        /\ Len(Output.trace) = Len(steps)

\* ---------------------------------------------------------------- C26
\* the list the operator op makes of the lists tr
MergedBy(op, tr) ==
    CASE op = "intersect" -> merge_intersect(tr)
      [] op = "union" -> merge_union(tr)
      [] op = "difference" -> merge_difference(tr[1], tr[2])

\* the latest step is a tool step whose call returned a list
AfterToolStep == InStep /\ LatestStep.kind = "tool" /\ LatestStep.op # "fail"

\* the list that step's call returned
Returned == Recs(LatestStep.ids, Len(steps))

\* C26: a successful tool step appends the returned list to tool_results and
\* makes it context_last; then, as long as the head of pending_merges has
\* two lists to work on, that operator is taken off and applied, and
\* tool_results collapses to the merged list.
ToolStepAppendsAndDrains ==
    AfterToolStep =>
        LET tr == Append(before.tool_results, Returned) IN
            /\ phase = "run"
            /\ IF before.pending_merges # <<>> /\ Len(tr) >= 2
                 THEN LET m == MergedBy(Head(before.pending_merges), tr) IN
                        /\ tool_results = <<m>>
                        /\ context_last = LastList(m)
                        /\ pending_merges = Tail(before.pending_merges)
                 ELSE /\ tool_results = tr
                      /\ context_last = LastList(Returned)
                      /\ pending_merges = before.pending_merges

\* C26 witness: of two deferred operators the older one, intersect, was
\* applied when the second list arrived; union stays deferred
HeadOperatorDrained ==
    /\ phase = "run" /\ Len(steps) = 4
    /\ steps[1].op = "intersect" /\ steps[2].op = "union"
    /\ steps[3].ids = <<1, 2, 3>> /\ steps[4].ids = <<2, 3, 4>>
    /\ tool_results = <<<<Rec(2, 3, 2), Rec(3, 3, 3)>>>>
    /\ pending_merges = <<"union">>

\* ---------------------------------------------------------------- C27
\* a binary operator was applied in the latest step: at once, by a merge
\* step that found two lists, or from pending_merges after a tool step
AppliedNow ==
    /\ InStep /\ phase = "run"
    /\ \/ /\ LatestStep.kind = "merge" /\ LatestStep.op \in Binary
          /\ Len(before.tool_results) >= 2
       \/ /\ AfterToolStep
          /\ Len(pending_merges) < Len(before.pending_merges)

\* C27: whenever a binary operator has been applied, at its merge step or
\* later from pending_merges, tool_results is the one-element list of the
\* merged list and context_last is the merged list.
AppliedMergeCollapses ==
    AppliedNow =>
        /\ Len(tool_results) = 1
        /\ context_last = LastList(tool_results[1])
        /\ IF LatestStep.kind = "merge"
             THEN tool_results[1] = MergedBy(LatestStep.op, before.tool_results)
             ELSE tool_results[1] =
                    MergedBy(Head(before.pending_merges),
                             Append(before.tool_results, Returned))

\* C27 witness: a deferred difference was applied when the second list came
DeferredDifferenceApplied ==
    /\ phase = "run" /\ Len(steps) = 3
    /\ steps[2] = Step("merge", "difference", <<>>)
    /\ steps[1].ids = <<1, 2, 3, 4, 5>> /\ steps[3].ids = <<2, 3, 4>>
    /\ pending_merges = <<>>
    /\ tool_results = <<<<Rec(1, 1, 1), Rec(5, 1, 5)>>>>
    /\ context_last = LastList(<<Rec(1, 1, 1), Rec(5, 1, 5)>>)

\* ---------------------------------------------------------------- C28
\* C28: a count step changes context_last only: tool_results is as before,
\* and the deferred operators, which lack two lists, stay in pending_merges
\* in their order.
CountChangesLastOnly ==
    (InStep /\ LatestStep = Step("merge", "count", <<>>)) =>
        /\ tool_results = before.tool_results
        /\ pending_merges = before.pending_merges
        /\ context_last.t = "int"

\* C28 witness: a count with one list and two deferred operators
CountWithDeferred ==
    /\ phase = "run" /\ Len(steps) = 4
    /\ steps[4] = Step("merge", "count", <<>>)
    /\ pending_merges = <<"difference", "intersect">>
    /\ tool_results = <<Recs(<<1, 0, 1>>, 1)>>
    /\ context_last = LastInt(3)

\* ---------------------------------------------------------------- C30
\* C30: at every step boundary, if pending_merges is non-empty then
\* tool_results has at most one element; so a merge step that is applied at
\* once finds no deferred operator, and the drains of count and of the end
\* of the plan apply nothing.
PendingImpliesOneList ==
    /\ (phase # "error" /\ pending_merges # <<>>) => Len(tool_results) <= 1
    /\ (InStep /\ phase = "run" /\ LatestStep.kind = "merge"
          /\ LatestStep.op \in Binary /\ Len(before.tool_results) >= 2) =>
          before.pending_merges = <<>>
    /\ (InStep /\ LatestStep = Step("merge", "count", <<>>)) =>
          tool_results = before.tool_results /\ pending_merges = before.pending_merges
    /\ phase = "done" =>
          /\ tool_results = before.tool_results
          /\ pending_merges = before.pending_merges
          /\ context_last = before.context_last

\* C30 witness: the plan ended with an operator still deferred and one list
EndedWithDeferred ==
    /\ phase = "done" /\ Len(steps) = 4
    /\ pending_merges = <<"union">>
    /\ Len(tool_results) = 1
    /\ steps[1].op = "intersect" /\ steps[2].op = "union"

\* ---------------------------------------------------------------- C23
\* the groups of the spec that are dicts
DictGroups == {k \in 1..Len(tools_section) : tools_section[k].isdict}

\* the method entries: <<group, entry>> positions of the entries of dict
\* groups whose key is not "description"
MethodEntries ==
    {ge \in DictGroups \X (1..MaxMethods + 1) :
        /\ ge[2] <= Len(tools_section[ge[1]].entries)
        /\ tools_section[ge[1]].entries[ge[2]].name # <<"description">>}

FlatName(ge) ==
    fullname(tools_section[ge[1]].name, tools_section[ge[1]].entries[ge[2]].name)

\* C23: for every group g with a group-level "description" key,
\* "g.description" is not a registered tool name, while every other method
\* key m of g is registered as "g.m".
GroupDescriptionNotRegistered ==
    tools # NotBuilt =>
        /\ \A k \in DictGroups :
              (\E n \in 1..Len(tools_section[k].entries) :
                    tools_section[k].entries[n].name = <<"description">>) =>
                  fullname(tools_section[k].name, <<"description">>) \notin Keys(tools)
        /\ \A ge \in MethodEntries : FlatName(ge) \in Keys(tools)

\* ---------------------------------------------------------------- C25
\* C25: distinct (group, method) pairs yield distinct flat names, so that
\* _build overwrites no descriptor and the number of registered tools is the
\* number of method entries.
FlatNamesUnique ==
    tools # NotBuilt =>
        /\ \A ge1, ge2 \in MethodEntries : ge1 # ge2 => FlatName(ge1) # FlatName(ge2)
        /\ Len(tools) = Cardinality(MethodEntries)

\* ---------------------------------------------------------------- C24
\* the fields the registry recognizes
Recognized ==
    {"type", "func", "params", "schema", "serializer",
     "method", "endpoint", "timeout", "path", "description", "id_param"}

DeleteMissingIsError ==
    \A n \in 1..Len(wsreplies) :
        (wsreplies[n].method = "students.delete" /\ wsreplies[n].sid # NoStudentId
            /\ ~wsreplies[n].existed) => wsreplies[n].kind = "error"

\* ---------------------------------------------------------------- C31
\* the locals of execute after a tool step that returns res, and after a
\* binary merge step, from the locals v
AfterTool(v, res) ==
    DrainAfterTool(Append(v.tool_results, res), LastList(res), v.pending_merges)
AfterMerge(v, op) ==
    BinaryMerge(op, v.tool_results, v.context_last, v.pending_merges)

\* the lists A, B, C of the plan [A, intersect, union, B, C]
ListA == Recs(<<1, 2, 3, 4, 5>>, 1)
ListB == Recs(<<2, 3, 4>>, 4)
ListC == Recs(<<1, 2, 3>>, 5)

\* the locals after the fourth and after the fifth step of that plan
ChainAfterB ==
    AfterTool(AfterMerge(AfterMerge(AfterTool(Snapshot(<<>>, LastNone, <<>>), ListA),
                                    "intersect"), "union"), ListB)
ChainAfterC == AfterTool(ChainAfterB, ListC)

\* C31: deferred operators are applied oldest first, each once, and a tool
\* step applies at most one of them: after it tool_results has one element,
\* so the next deferred operator waits for the next tool result; the plan
\* [A, intersect, union, B, C] computes union(intersect(A, B), C).
DeferredAppliedInOrder ==
    /\ AfterToolStep =>
          \/ /\ pending_merges = before.pending_merges
             /\ tool_results = Append(before.tool_results, Returned)
          \/ /\ before.pending_merges # <<>>
             /\ pending_merges = Tail(before.pending_merges)
             /\ tool_results =
                   <<MergedBy(Head(before.pending_merges),
                              Append(before.tool_results, Returned))>>
    /\ (InStep /\ phase = "run" /\ LatestStep.kind # "tool") =>
          \/ pending_merges = before.pending_merges
          \/ pending_merges = Append(before.pending_merges, LatestStep.op)
    /\ ChainAfterB.pending_merges = <<"union">>
    /\ ChainAfterB.tool_results = <<merge_intersect(<<ListA, ListB>>)>>
    /\ ChainAfterC.pending_merges = <<>>
    /\ ChainAfterC.context_last =
          LastList(merge_union(<<merge_intersect(<<ListA, ListB>>), ListC>>))

\* C31 witness: in the plan [A, intersect, union, B] the result of B let
\* intersect be applied, and union waits
SecondOperatorWaits ==
    /\ phase = "run" /\ Len(steps) = 4
    /\ steps[1].ids = <<1, 2, 3, 4, 5>>
    /\ steps[2].op = "intersect" /\ steps[3].op = "union"
    /\ steps[4].ids = <<2, 3, 4>>
    /\ tool_results = <<<<Rec(2, 1, 2), Rec(3, 1, 3), Rec(4, 1, 4)>>>>
    /\ pending_merges = <<"union">>

\* ---------------------------------------------------------------- C32
\* C32: for every plan whose last step is count the final value is an
\* integer, the length of the most recent list result, or 0 when there is
\* none; the drain at the end of the plan does not turn it into a list.
CountLastGivesInteger ==
    (phase = "done" /\ steps # <<>> /\ LatestStep = Step("merge", "count", <<>>)) =>
        /\ Output.final.t = "int"
        /\ Output.final.n =
              IF tool_results # <<>> THEN Len(tool_results[Len(tool_results)]) ELSE 0
        /\ (\A k \in 1..Len(steps) : steps[k].kind # "tool") => Output.final.n = 0

\* C32 witness: a plan ending in count returned 3 with an operator still
\* deferred
CountedWithDeferredAtEnd ==
    /\ phase = "done" /\ Len(steps) = 3
    /\ steps[1].op = "union" /\ steps[2].ids = <<2, 3, 4>>
    /\ steps[3] = Step("merge", "count", <<>>)
    /\ pending_merges = <<"union">>
    /\ Output.final = LastInt(3)

\* ---------------------------------------------------------------- C33
\* C33: whenever context_last is a list at a step boundary it is the last
\* element of tool_results, so a count step right after a count step leaves
\* the integer of the first.
CountIdempotent ==
    /\ (phase # "error" /\ context_last.t = "list") =>
          tool_results # <<>> /\ context_last.l = tool_results[Len(tool_results)]
    /\ (InStep /\ Len(steps) >= 2 /\ LatestStep = Step("merge", "count", <<>>)
          /\ steps[Len(steps) - 1] = Step("merge", "count", <<>>)) =>
          context_last = before.context_last

\* C33 witness: two counts after a deferred intersect was applied
CountedTwiceAfterMerge ==
    /\ phase = "run" /\ Len(steps) = 4
    /\ steps[1].ids = <<1, 2, 3>> /\ steps[2].ids = <<2, 3, 4>>
    /\ steps[3] = Step("merge", "count", <<>>)
    /\ steps[4] = Step("merge", "count", <<>>)
    /\ Len(tool_results) = 2
    /\ context_last = LastInt(3)

\* ---------------------------------------------------------------- C36
\* C36: the frames of a session are handled one at a time: every frame that
\* was followed by another has its one reply, the replies are in the order
\* of the requests, and while execute_tool runs the frame has no reply yet
\* and no further frame is read.
FramesHandledOneAtATime ==
    /\ \A k \in 1..(Len(recv) - 1) : Cardinality(RepliesFor(k)) = 1
    /\ \A i, j \in 1..Len(sent) : i < j => sent[i].for < sent[j].for
    /\ spc = "exec" =>
          /\ RepliesFor(Len(recv)) = {}
          /\ ~ENABLED (\E f \in SFrames : ReadFrame(f))

\* C36 witness: the second call_tool runs after the first was answered
SecondCallRunsAfterFirstReply ==
    /\ spc = "exec" /\ Len(recv) = 2
    /\ IsCallTool(recv[1]) /\ IsCallTool(recv[2])
    /\ Len(execd) = 1
    /\ Len(sent) = 1 /\ sent[1].for = 1

\* ---------------------------------------------------------------- C37
\* the names list_tools returns: the keys of ToolRegistry.tools
ListedNames == ToolNames

\* C37: a tool_info or call_tool request that names a listed tool is never
\* answered "not found".
ListedToolsResolvable ==
    \A j \in 1..Len(sent) :
        LET f == recv[sent[j].for] IN
        (f.shape = "object" /\ f.method \in {"tool_info", "call_tool"}
            /\ f.params = "object" /\ f.name \in ListedNames) =>
            ~(sent[j].kind = "error" /\ sent[j].code = MethodNotFoundCode)

\* ---------------------------------------------------------------- C38
\* spec.get(key, default) on a normalized descriptor
SpecGet(spec, key, default) ==
    IF key \in Keys(spec) THEN DictGet(spec, key) ELSE default

\* ToolRegistry.list_tools: the flat mapping of every registered name to its
\* listed descriptor (of which the description member is kept here)
list_tools(d) ==
    [n \in 1..Len(d) |->
        <<d[n][1], <<<<"description", SpecGet(d[n][2], "description", <<>>)>>>>>>]

\* the result member of the reply to list_tools: the list as_mcp_tools gives
\* when the MCP package is available, else the mapping of list_tools
ListToolsResult(mcp_available) ==
    IF mcp_available
      THEN [shape |-> "list", items |-> [n \in 1..Len(tools) |-> tools[n][1]]]
      ELSE [shape |-> "dict", items |-> list_tools(tools)]

\* run_query up to the call of the planner: tools_list.get("tools", {}) and
\* the comprehension over its items. A list has no get, and the members of a
\* listed descriptor are no dicts, so either raises AttributeError.
PlannerTools(tools_list) ==
    IF tools_list.shape # "dict" THEN [raised |-> TRUE, tools |-> EmptyDict]
    ELSE IF <<"tools">> \in Keys(tools_list.items)
      THEN [raised |-> TRUE, tools |-> EmptyDict]
    ELSE [raised |-> FALSE, tools |-> EmptyDict]

\* C38: the tool names run_query hands to the planner are the tool names
\* registered on the server, the reply being the flat mapping of list_tools.
PlannerSeesRegisteredTools ==
    tools # NotBuilt =>
        LET p == PlannerTools(ListToolsResult(FALSE)) IN
        /\ ~p.raised
        /\ Keys(p.tools) = Keys(tools)

\* ---------------------------------------------------------------- C39
\* C39: every error reply carries the id of the frame that caused it: a
\* frame that is no JSON, the first of the connection or a later one, gets
\* no reply with the id of an earlier request, and does not end the loop of
\* the handler.
ErrorReplyCarriesOwnId ==
    /\ \A n \in 1..Len(wsreplies) :
          wsreplies[n].kind = "error" => wsids[n].id = wsids[n].frame
    /\ wsstate # "UnboundLocalError"

\* ---------------------------------------------------------------- C34
\* the steps of the plan that are tool steps
ToolStepsBegun == {k \in 1..Len(steps) : steps[k].kind = "tool"}

\* C34: execute makes exactly one call_tool call per tool step, in the order
\* of the plan and one at a time (a call is outstanding only while execute
\* awaits it), and none after a call failed.
OneCallPerToolStep ==
    /\ {calls[i].step : i \in 1..Len(calls)} = ToolStepsBegun
    /\ \A i, j \in 1..Len(calls) : i < j => calls[i].step < calls[j].step
    /\ \A i \in 1..(Len(calls) - 1) : calls[i].state = "returned"
    /\ \A i \in 1..Len(calls) :
          /\ calls[i].state = "sent" <=> (i = Len(calls) /\ phase = "await")
          /\ calls[i].state = "failed" => phase = "error"

\* C34 witness: the second of two tool steps failed after a merge step
SecondCallFailed ==
    /\ phase = "error" /\ Len(steps) = 3
    /\ steps[1].kind = "tool" /\ steps[2].kind = "merge" /\ steps[3].kind = "tool"
    /\ calls = <<Call(1, "returned"), Call(3, "failed")>>

\* ---------------------------------------------------------------- C35
\* C35: execute terminates, by returning or by raising, for every plan
\* whose tool calls each return or fail.
ExecuteTerminates == <>(phase \in {"done", "error"})

\* C35 witness: execute returned with an operator deferred that could never
\* be applied, after the drains of a tool step and of a count step
ReturnedWithDeferred ==
    /\ phase = "done" /\ Len(steps) = 3
    /\ steps[1].kind = "merge" /\ steps[1].op \in Binary
    /\ steps[2].kind = "tool" /\ steps[3].op = "count"
    /\ pending_merges = <<steps[1].op>>
    /\ calls = <<Call(2, "returned")>>

====
